---- MODULE Spec2Model ----
(***************************************************************************)
(* Matching and ranking core of FT_bot: ScoreAggregator, the four          *)
(* sub-scorers, MatchingEngine, ScoreNormalizer, PercentileCalculator and  *)
(* the two pool rankers behind RankingEngine.                              *)
(*                                                                         *)
(* Number representation.  Scores are integers in units of 10^-4 (the      *)
(* precision every scorer rounds to), weights are integers in units of     *)
(* 10^-7 (one decade finer than the 1e-6 validation tolerance), years are  *)
(* integers in units of 0.1 year.  Text is a sequence of one-character     *)
(* strings so that lower() and the substring test are computed.            *)
(* Python values that may be None or of the wrong type are tagged records  *)
(* [t |-> tag, v |-> value].                                               *)
(***************************************************************************)
EXTENDS Integers, Sequences, FiniteSets, TLC

(***************************************************************************)
(* Bounds of the exploration                                               *)
(***************************************************************************)
MaxPool == 3
MaxMutations == 1

(***************************************************************************)
(* Units                                                                   *)
(***************************************************************************)
\* one score unit is 10^-4: every scorer ends in round(x, 4)
SCALE == 10000

\* one weight unit is 10^-7: the validation tolerance 1e-6 is ten units
WUNIT == 10000000

\* weight units per score unit; splits a weight into high and low part
WSPLIT == WUNIT \div SCALE

(***************************************************************************)
(* Arithmetic helpers                                                      *)
(***************************************************************************)
Min2(a, b) == IF a <= b THEN a ELSE b

Max2(a, b) == IF a >= b THEN a ELSE b

Abs(a) == IF a < 0 THEN 0 - a ELSE a

\* max(0.0, min(1.0, x)) on the 10^-4 scale
Clamp01(x) == Max2(0, Min2(SCALE, x))

\* round(n / d) to the nearest integer, ties to even, for d > 0
RoundDiv(n, d) ==
    LET q == n \div d
        r == n % d
    IN  IF 2 * r < d THEN q
        ELSE IF 2 * r > d THEN q + 1
        ELSE IF q % 2 = 0 THEN q ELSE q + 1

RECURSIVE SumSeq(_)
SumSeq(s) == IF s = <<>> THEN 0 ELSE Head(s) + SumSeq(Tail(s))

RECURSIVE SetToSeq(_)
SetToSeq(S) ==
    IF S = {} THEN <<>>
    ELSE LET x == CHOOSE y \in S : TRUE IN <<x>> \o SetToSeq(S \ {x})

Range(s) == {s[i] : i \in DOMAIN s}

(***************************************************************************)
(* ScoreAggregator                                                         *)
(***************************************************************************)
WeightKeys == {"semantic", "skills", "experience", "education"}

DEFAULT_WEIGHTS ==
    [k \in WeightKeys |->
        CASE k = "semantic"   -> 3000000
          [] k = "skills"     -> 4000000
          [] k = "experience" -> 2000000
          [] k = "education"  -> 1000000]

\* abs(total - 1.0) > 1e-6 compares against ten weight units
WEIGHT_TOLERANCE == 10

\* Python truthiness of the weights argument: None and {} are falsy
Truthy(w) == w.t = "dict" /\ DOMAIN w.d # {}

\* sum(self.weights.values()): every value of the mapping, whatever its key
SumValues(d) == SumSeq([i \in 1..Cardinality(DOMAIN d) |-> d[SetToSeq(DOMAIN d)[i]]])

\* _validate_weights: "ok", or the exception it raises
ValidateWeights(d) ==
    IF WeightKeys \ DOMAIN d # {} THEN "ValueError"
    ELSE IF Abs(SumValues(d) - WUNIT) > WEIGHT_TOLERANCE THEN "ValueError"
    ELSE "ok"

\* float(x or 0.0) followed by the clamp to [0,1]; x is a tagged number
ClampInput(x) == IF x.t = "none" THEN 0 ELSE Clamp01(x.v)

\* Exact weighted sum of four clamped inputs, returned as the pair
\* <<h, l>> standing for h * 10^-8 + l * 10^-11 with 0 <= l < 1000.
\* The split keeps every intermediate product inside 32-bit integers.
WeightedSum(d, in) ==
    LET hi(k) == d[k] \div WSPLIT
        lo(k) == d[k] % WSPLIT
        keys  == <<"semantic", "skills", "experience", "education">>
        H == SumSeq([i \in 1..4 |-> in[keys[i]] * hi(keys[i])])
        L == SumSeq([i \in 1..4 |-> in[keys[i]] * lo(keys[i])])
    IN  <<H + (L \div WSPLIT), L % WSPLIT>>

\* round(x, 4) of h * 10^-8 + l * 10^-11, ties to even
Round4(h, l) ==
    LET q    == h \div SCALE
        frac == (h % SCALE) * WSPLIT + l
        half == (SCALE * WSPLIT) \div 2
    IN  IF frac < half THEN q
        ELSE IF frac > half THEN q + 1
        ELSE IF q % 2 = 0 THEN q ELSE q + 1

\* Variant of ClampRound without the final clamp
ClampRoundNoClamp(hl) == Round4(hl[1], hl[2])

\* overall = round(max(0.0, min(1.0, overall)), 4)
ClampRound(hl) ==
    IF hl[1] < 0 THEN 0
    ELSE IF hl[1] >= SCALE * SCALE THEN SCALE
    ELSE Round4(hl[1], hl[2])

\* ScoreAggregator.aggregate on the mapping d that self.weights refers to.
\* Returns [exc, value]; self.weights[k] raises KeyError for an absent key.
Aggregate(d, sem, ski, exper, edu) ==
    IF WeightKeys \ DOMAIN d # {}
    THEN [exc |-> "KeyError", value |-> 0]
    ELSE LET in == [k \in WeightKeys |->
                      CASE k = "semantic"   -> ClampInput(sem)
                        [] k = "skills"     -> ClampInput(ski)
                        [] k = "experience" -> ClampInput(exper)
                        [] k = "education"  -> ClampInput(edu)]
         IN  [exc |-> "none", value |-> ClampRound(WeightedSum(d, in))]

Num(v) == [t |-> "num", v |-> v]

NoneVal == [t |-> "none", v |-> 0]

(***************************************************************************)
(* Text: str.lower(), str.strip() and the "in" substring test              *)
(***************************************************************************)
UpperAlpha ==
    <<"A", "B", "C", "D", "E", "F", "G", "H", "I", "J", "K", "L", "M",
      "N", "O", "P", "Q", "R", "S", "T", "U", "V", "W", "X", "Y", "Z">>

LowerAlpha ==
    <<"a", "b", "c", "d", "e", "f", "g", "h", "i", "j", "k", "l", "m",
      "n", "o", "p", "q", "r", "s", "t", "u", "v", "w", "x", "y", "z">>

LowerChar(c) ==
    IF \E i \in 1..26 : UpperAlpha[i] = c
    THEN LowerAlpha[CHOOSE i \in 1..26 : UpperAlpha[i] = c]
    ELSE c

Lower(s) == [i \in 1..Len(s) |-> LowerChar(s[i])]

\* a in b
Contains(b, a) ==
    \E off \in 0..(Len(b) - Len(a)) :
        \A i \in 1..Len(a) : b[off + i] = a[i]

\* "not text.strip()": nothing but whitespace
IsBlank(s) == \A i \in 1..Len(s) : s[i] = " "

(***************************************************************************)
(* Skill names and education texts used by the profiles                    *)
(***************************************************************************)
python == <<"p", "y", "t", "h", "o", "n">>

sql == <<"s", "q", "l">>

SQL_ == <<"S", "Q", "L">>

spark == <<"s", "p", "a", "r", "k">>

apache_spark == <<"a", "p", "a", "c", "h", "e", " ", "s", "p", "a", "r", "k">>

pytorch == <<"p", "y", "t", "o", "r", "c", "h">>

tensorflow == <<"t", "e", "n", "s", "o", "r", "f", "l", "o", "w">>

docker == <<"d", "o", "c", "k", "e", "r">>

java == <<"j", "a", "v", "a">>

kubernetes == <<"k", "u", "b", "e", "r", "n", "e", "t", "e", "s">>

PhD_ML == <<"P", "h", "D", " ", "i", "n", " ", "M", "L">>

Master_CS == <<"M", "a", "s", "t", "e", "r", " ", "i", "n", " ", "C", "S">>

Bachelor_CS == <<"B", "a", "c", "h", "e", "l", "o", "r", " ", "i", "n", " ", "C", "S">>

High_School == <<"H", "i", "g", "h", " ", "S", "c", "h", "o", "o", "l">>

Associate_IT == <<"A", "s", "s", "o", "c", "i", "a", "t", "e", " ", "i", "n", " ", "I", "T">>

Bootcamp == <<"B", "o", "o", "t", "c", "a", "m", "p">>

Blank == <<" ", " ">>

(***************************************************************************)
(* Embedding vectors: integer components, integer Euclidean norms          *)
(***************************************************************************)
MaxNorm == 25

Dot(a, b) == SumSeq([i \in 1..Len(a) |-> a[i] * b[i]])

\* np.linalg.norm; the vectors of the model have integer norms
Norm(a) == CHOOSE n \in 0..MaxNorm : n * n = Dot(a, a)

Vec(v) == [t |-> "vec", v |-> v]

NoneVec == [t |-> "none", v |-> <<>>]

(***************************************************************************)
(* SemanticScorer                                                          *)
(***************************************************************************)
\* _validate_embeddings: "ok" or the exception raised
ValidateEmbeddings(re, je) ==
    IF re.t = "none" \/ je.t = "none" THEN "ValueError"
    ELSE IF Len(re.v) = 0 \/ Len(je.v) = 0 THEN "ValueError"
    ELSE IF Len(re.v) # Len(je.v) THEN "ValueError"
    ELSE "ok"

\* dot / (norm_a * norm_b + 1e-8) on the 10^-4 scale.  The guard term moves
\* the quotient by less than 10^-8 unless a norm is zero, where it makes
\* the quotient 0 instead of a division by zero.
SemanticCosine(a, b) ==
    IF Norm(a) * Norm(b) = 0 THEN 0
    ELSE (Dot(a, b) * SCALE) \div (Norm(a) * Norm(b))

\* Variant of SemanticScore: the np.clip is left out
SemanticScoreNoClip(re, je) ==
    IF ValidateEmbeddings(re, je) # "ok"
    THEN [exc |-> ValidateEmbeddings(re, je), value |-> 0]
    ELSE [exc |-> "none", value |-> SemanticCosine(re.v, je.v)]

\* SemanticScorer.score with the default clip range [0.0, 1.0]
SemanticScore(re, je) ==
    IF ValidateEmbeddings(re, je) # "ok"
    THEN [exc |-> ValidateEmbeddings(re, je), value |-> 0]
    ELSE [exc |-> "none", value |-> Clamp01(SemanticCosine(re.v, je.v))]

(***************************************************************************)
(* ExperienceScorer                                                        *)
(***************************************************************************)
\* PENALTY_PER_YEAR = 0.15: 150 score units per 0.1 year of gap
PENALTY_PER_TENTH_YEAR == 150

\* max(0.0, float(x or 0.0)); float() of a non-numeric string raises
YearsInput(x) ==
    CASE x.t = "none" -> [exc |-> "none", value |-> 0]
      [] x.t = "str"  -> [exc |-> "ValueError", value |-> 0]
      [] OTHER        -> [exc |-> "none", value |-> Max2(0, x.v)]

\* Variant of ExperienceScoreWithPenalty: the score is not floored at 0.0
ExperienceScoreNoFloor(cand, req, penalty) ==
    LET c == YearsInput(cand)
        r == YearsInput(req)
    IN  IF c.exc # "none" THEN [exc |-> c.exc, value |-> 0]
        ELSE IF r.exc # "none" THEN [exc |-> r.exc, value |-> 0]
        ELSE IF r.value = 0 THEN [exc |-> "none", value |-> SCALE]
        ELSE IF c.value >= r.value THEN [exc |-> "none", value |-> SCALE]
        ELSE [exc |-> "none", value |-> SCALE - (r.value - c.value) * penalty]

\* ExperienceScorer(penalty_per_year).score; penalty is self.PENALTY_PER_YEAR
\* in score units per 0.1 year
ExperienceScoreWithPenalty(cand, req, penalty) ==
    LET c == YearsInput(cand)
        r == YearsInput(req)
    IN  IF c.exc # "none" THEN [exc |-> c.exc, value |-> 0]
        ELSE IF r.exc # "none" THEN [exc |-> r.exc, value |-> 0]
        ELSE IF r.value = 0 THEN [exc |-> "none", value |-> SCALE]
        ELSE IF c.value >= r.value THEN [exc |-> "none", value |-> SCALE]
        ELSE [exc |-> "none",
              value |-> Max2(0, SCALE - (r.value - c.value) * penalty)]

\* ExperienceScorer().score, the scorer the engine builds
ExperienceScore(cand, req) ==
    ExperienceScoreWithPenalty(cand, req, PENALTY_PER_TENTH_YEAR)

(***************************************************************************)
(* EducationScorer                                                         *)
(***************************************************************************)
EDUCATION_LEVELS ==
    <<
      [level |-> 5, keywords |-> <<
          <<"p", "h", "d">>,
          <<"p", "h", ".", "d">>,
          <<"d", "o", "c", "t", "o", "r", "a", "t", "e">>,
          <<"d", "o", "c", "t", "o", "r", "a", "l">>>>],
      [level |-> 4, keywords |-> <<
          <<"m", "a", "s", "t", "e", "r">>,
          <<"m", "s", "c">>,
          <<"m", ".", "s", ".">>,
          <<"m", ".", "s", " ">>,
          <<" ", "m", "s", " ">>,
          <<"m", "b", "a">>,
          <<"m", ".", "e", "n", "g">>,
          <<"m", ".", "t", "e", "c", "h">>>>],
      [level |-> 3, keywords |-> <<
          <<"b", "a", "c", "h", "e", "l", "o", "r">>,
          <<"b", "s", "c">>,
          <<"b", ".", "s", ".">>,
          <<"b", ".", "s", " ">>,
          <<"b", "s", " ">>,
          <<"b", ".", "e", "n", "g">>,
          <<"b", ".", "t", "e", "c", "h">>,
          <<"u", "n", "d", "e", "r", "g", "r", "a", "d", "u", "a", "t", "e">>,
          <<"c", "o", "l", "l", "e", "g", "e", " ", "d", "e", "g", "r", "e", "e">>>>],
      [level |-> 2, keywords |-> <<
          <<"a", "s", "s", "o", "c", "i", "a", "t", "e">>,
          <<"a", ".", "s", ".">>,
          <<"a", ".", "a", ".">>>>],
      [level |-> 1, keywords |-> <<
          <<"h", "i", "g", "h", " ", "s", "c", "h", "o", "o", "l">>,
          <<"s", "e", "c", "o", "n", "d", "a", "r", "y", " ", "s", "c", "h", "o", "o", "l">>,
          <<"g", "e", "d">>,
          <<"h", "s", "c">>,
          <<"s", "e", "c", "o", "n", "d", "a", "r", "y">>>>]
    >>

\* PENALTY_PER_LEVEL = 0.20
PENALTY_PER_LEVEL == 2000

\* UNKNOWN_SCORE = 0.30
UNKNOWN_SCORE == 3000

Text(s) == [t |-> "str", v |-> s]

NoneText == [t |-> "none", v |-> <<>>]

\* a value that is neither None nor a string (for instance a list)
NotText == [t |-> "other", v |-> <<>>]

\* First level, scanning highest first, one of whose keywords occurs
RECURSIVE ScanLevels(_, _)
ScanLevels(textLower, i) ==
    IF i > Len(EDUCATION_LEVELS) THEN 0
    ELSE IF \E k \in 1..Len(EDUCATION_LEVELS[i].keywords) :
                Contains(textLower, EDUCATION_LEVELS[i].keywords[k])
         THEN EDUCATION_LEVELS[i].level
         ELSE ScanLevels(textLower, i + 1)

\* _detect_level: None and "" are falsy, a non-string has no strip()
DetectLevel(x) ==
    CASE x.t = "none"  -> [exc |-> "none", value |-> 0]
      [] x.t = "other" -> [exc |-> "AttributeError", value |-> 0]
      [] OTHER ->
           IF Len(x.v) = 0 \/ IsBlank(x.v)
           THEN [exc |-> "none", value |-> 0]
           ELSE [exc |-> "none", value |-> ScanLevels(Lower(x.v), 1)]

\* Variant of EducationLevelScore: the unknown candidate is examined first
EducationLevelScoreUnknownFirst(candidateLevel, requiredLevel) ==
    IF candidateLevel = 0 THEN UNKNOWN_SCORE
    ELSE IF requiredLevel = 0 THEN SCALE
    ELSE IF candidateLevel >= requiredLevel THEN SCALE
    ELSE Max2(0, SCALE - (requiredLevel - candidateLevel) * PENALTY_PER_LEVEL)

\* Variant of EducationLevelScore: the penalty is floored at UNKNOWN_SCORE
EducationLevelScoreFloorUnknown(candidateLevel, requiredLevel) ==
    IF requiredLevel = 0 THEN SCALE
    ELSE IF candidateLevel = 0 THEN UNKNOWN_SCORE
    ELSE IF candidateLevel >= requiredLevel THEN SCALE
    ELSE Max2(UNKNOWN_SCORE,
              SCALE - (requiredLevel - candidateLevel) * PENALTY_PER_LEVEL)

\* The scoring rules of EducationScorer.score on two detected levels
EducationLevelScore(candidateLevel, requiredLevel) ==
    IF requiredLevel = 0 THEN SCALE
    ELSE IF candidateLevel = 0 THEN UNKNOWN_SCORE
    ELSE IF candidateLevel >= requiredLevel THEN SCALE
    ELSE Max2(0, SCALE - (requiredLevel - candidateLevel) * PENALTY_PER_LEVEL)

\* required level is detected first, then the candidate level
EducationScore(cand, req) ==
    LET r == DetectLevel(req)
        c == DetectLevel(cand)
    IN  IF r.exc # "none" THEN [exc |-> r.exc, value |-> 0]
        ELSE IF c.exc # "none" THEN [exc |-> c.exc, value |-> 0]
        ELSE [exc |-> "none", value |-> EducationLevelScore(c.value, r.value)]

(***************************************************************************)
(* SkillsMatcher                                                           *)
(***************************************************************************)
\* MATCH_THRESHOLD = 0.65, the value MatchingEngine passes on by default
MATCH_THRESHOLD == 6500

\* Variant of MeetsThreshold: a best score equal to the threshold is a miss
MeetsThresholdStrictly(best_score, threshold) == best_score > threshold

\* if best_score >= self.MATCH_THRESHOLD
MeetsThreshold(best_score, threshold) == best_score >= threshold

\* A skill-embedding mapping: [t |-> "dict", d |-> function] or None
EmbDict(pairs) ==
    [t |-> "dict",
     d |-> [n \in {p[1] : p \in pairs} |-> (CHOOSE p \in pairs : p[1] = n)[2]]]

NoneDict == [t |-> "none", d |-> <<>>]

\* _cosine_similarity: zero norm gives 0.0 before np.dot is reached;
\* np.dot raises ValueError when the lengths differ
SkillCosine(a, b) ==
    IF Norm(a) = 0 \/ Norm(b) = 0 THEN [exc |-> "none", value |-> 0]
    ELSE IF Len(a) # Len(b) THEN [exc |-> "ValueError", value |-> 0]
    ELSE [exc |-> "none", value |-> (Dot(a, b) * SCALE) \div (Norm(a) * Norm(b))]

\* _partial_string_score
PartialStringScore(skill_a, skill_b) ==
    LET a == Lower(skill_a)
        b == Lower(skill_b)
    IN  IF Contains(b, a) \/ Contains(a, b) THEN SCALE ELSE 0

\* The loop of _find_best_match from resume skill i on
RECURSIVE FindBestLoop(_, _, _, _, _, _, _)
FindBestLoop(job_skill, resume_skills, rEmb, jEmb, i, best_score, best_skill) ==
    IF i > Len(resume_skills)
    THEN [exc |-> "none", score |-> best_score, skill |-> best_skill]
    ELSE LET resume_skill == resume_skills[i] IN
         IF Lower(resume_skill) = Lower(job_skill)
         THEN [exc |-> "none", score |-> SCALE, skill |-> resume_skill]
         ELSE IF rEmb.t = "none"
         THEN [exc |-> "AttributeError", score |-> 0, skill |-> <<>>]
         ELSE LET haveBoth == job_skill \in DOMAIN jEmb.d
                               /\ resume_skill \in DOMAIN rEmb.d
                  sc == IF haveBoth
                        THEN SkillCosine(rEmb.d[resume_skill], jEmb.d[job_skill])
                        ELSE [exc |-> "none",
                              value |-> PartialStringScore(resume_skill, job_skill)]
              IN  IF sc.exc # "none"
                  THEN [exc |-> sc.exc, score |-> 0, skill |-> <<>>]
                  ELSE IF sc.value > best_score
                  THEN FindBestLoop(job_skill, resume_skills, rEmb, jEmb,
                                    i + 1, sc.value, resume_skill)
                  ELSE FindBestLoop(job_skill, resume_skills, rEmb, jEmb,
                                    i + 1, best_score, best_skill)

\* _find_best_match; job_skill_embeddings.get raises on a None mapping
FindBestMatch(job_skill, resume_skills, rEmb, jEmb) ==
    IF jEmb.t = "none"
    THEN [exc |-> "AttributeError", score |-> 0, skill |-> <<>>]
    ELSE FindBestLoop(job_skill, resume_skills, rEmb, jEmb, 1, 0, <<>>)

NoSimilarities == [s \in {} |-> 0]

\* Variant of RecordSimilarity: only matched skills are recorded
RecordSimilarityIfMatched(sims, job_skill, best_score) ==
    IF best_score >= MATCH_THRESHOLD
    THEN [s \in DOMAIN sims \cup {job_skill} |->
             IF s = job_skill THEN best_score ELSE sims[s]]
    ELSE sims

\* similarities[job_skill] = round(best_score, 4)
RecordSimilarity(sims, job_skill, best_score) ==
    [s \in DOMAIN sims \cup {job_skill} |->
        IF s = job_skill THEN best_score ELSE sims[s]]

\* _match_required_skills from required skill i on
RECURSIVE MatchRequiredLoop(_, _, _, _, _, _, _, _)
MatchRequiredLoop(resume_skills, required, rEmb, jEmb, i, matched, missing, sims) ==
    IF i > Len(required)
    THEN [exc |-> "none", matched |-> matched, missing |-> missing,
          similarities |-> sims]
    ELSE LET job_skill == required[i]
             best == FindBestMatch(job_skill, resume_skills, rEmb, jEmb)
             sims2 == RecordSimilarity(sims, job_skill, best.score)
         IN  IF best.exc # "none"
             THEN [exc |-> best.exc, matched |-> <<>>, missing |-> <<>>,
                   similarities |-> NoSimilarities]
             ELSE IF MeetsThreshold(best.score, MATCH_THRESHOLD)
             THEN MatchRequiredLoop(resume_skills, required, rEmb, jEmb, i + 1,
                                    Append(matched, job_skill), missing, sims2)
             ELSE MatchRequiredLoop(resume_skills, required, rEmb, jEmb, i + 1,
                                    matched, Append(missing, job_skill), sims2)

\* Variant of MatchRequiredSkills: the loop starts one skill too late
MatchRequiredSkillsSkipFirst(resume_skills, required, rEmb, jEmb) ==
    MatchRequiredLoop(resume_skills, required, rEmb, jEmb, 2, <<>>, <<>>,
                      NoSimilarities)

\* _match_required_skills
MatchRequiredSkills(resume_skills, required, rEmb, jEmb) ==
    MatchRequiredLoop(resume_skills, required, rEmb, jEmb, 1, <<>>, <<>>,
                      NoSimilarities)

\* _match_nice_to_have from nice-to-have skill i on
RECURSIVE MatchNiceLoop(_, _, _, _, _, _)
MatchNiceLoop(resume_skills, nice, rEmb, jEmb, i, bonus) ==
    IF i > Len(nice) THEN [exc |-> "none", bonus |-> bonus]
    ELSE LET best == FindBestMatch(nice[i], resume_skills, rEmb, jEmb)
         IN  IF best.exc # "none" THEN [exc |-> best.exc, bonus |-> <<>>]
             ELSE IF MeetsThreshold(best.score, MATCH_THRESHOLD)
             THEN MatchNiceLoop(resume_skills, nice, rEmb, jEmb, i + 1,
                                Append(bonus, nice[i]))
             ELSE MatchNiceLoop(resume_skills, nice, rEmb, jEmb, i + 1, bonus)

\* Variant of MatchNiceToHave: the threshold is not applied
MatchNiceToHaveAll(resume_skills, nice, rEmb, jEmb) ==
    [exc |-> "none", bonus |-> nice]

\* _match_nice_to_have
MatchNiceToHave(resume_skills, nice, rEmb, jEmb) ==
    MatchNiceLoop(resume_skills, nice, rEmb, jEmb, 1, <<>>)

\* _empty_result
EmptyResult(score, missing_skills) ==
    [exc |-> "none", skills_score |-> score, matched_skills |-> <<>>,
     missing_skills |-> missing_skills, bonus_skills |-> <<>>,
     skill_similarities |-> NoSimilarities]

SkillsRaise(e) ==
    [exc |-> e, skills_score |-> 0, matched_skills |-> <<>>,
     missing_skills |-> <<>>, bonus_skills |-> <<>>,
     skill_similarities |-> NoSimilarities]

\* Variant of SkillsMatch: the candidate's skills are examined first
SkillsMatchCandidateFirst(resume_skills, required, nice, rEmb, jEmb) ==
    IF Len(resume_skills) = 0 THEN EmptyResult(0, required)
    ELSE IF Len(required) = 0 THEN EmptyResult(SCALE, <<>>)
    ELSE LET req == MatchRequiredSkills(resume_skills, required, rEmb, jEmb)
             bon == MatchNiceToHave(resume_skills, nice, rEmb, jEmb)
         IN  IF req.exc # "none" THEN SkillsRaise(req.exc)
             ELSE IF bon.exc # "none" THEN SkillsRaise(bon.exc)
             ELSE [exc |-> "none",
                   skills_score |-> RoundDiv(Len(req.matched) * SCALE, Len(required)),
                   matched_skills |-> req.matched,
                   missing_skills |-> req.missing,
                   bonus_skills |-> bon.bonus,
                   skill_similarities |-> req.similarities]

\* Variant of SkillsMatch: bonus matches count towards the score
SkillsMatchBonusCounts(resume_skills, required, nice, rEmb, jEmb) ==
    IF Len(required) = 0 THEN EmptyResult(SCALE, <<>>)
    ELSE IF Len(resume_skills) = 0 THEN EmptyResult(0, required)
    ELSE LET req == MatchRequiredSkills(resume_skills, required, rEmb, jEmb)
             bon == MatchNiceToHave(resume_skills, nice, rEmb, jEmb)
         IN  IF req.exc # "none" THEN SkillsRaise(req.exc)
             ELSE IF bon.exc # "none" THEN SkillsRaise(bon.exc)
             ELSE [exc |-> "none",
                   skills_score |->
                       Clamp01(RoundDiv((Len(req.matched) + Len(bon.bonus)) * SCALE,
                                        Len(required))),
                   matched_skills |-> req.matched,
                   missing_skills |-> req.missing,
                   bonus_skills |-> bon.bonus,
                   skill_similarities |-> req.similarities]

\* SkillsMatcher.match
SkillsMatch(resume_skills, required, nice, rEmb, jEmb) ==
    IF Len(required) = 0 THEN EmptyResult(SCALE, <<>>)
    ELSE IF Len(resume_skills) = 0 THEN EmptyResult(0, required)
    ELSE LET req == MatchRequiredSkills(resume_skills, required, rEmb, jEmb)
             bon == MatchNiceToHave(resume_skills, nice, rEmb, jEmb)
         IN  IF req.exc # "none" THEN SkillsRaise(req.exc)
             ELSE IF bon.exc # "none" THEN SkillsRaise(bon.exc)
             ELSE [exc |-> "none",
                   skills_score |-> RoundDiv(Len(req.matched) * SCALE, Len(required)),
                   matched_skills |-> req.matched,
                   missing_skills |-> req.missing,
                   bonus_skills |-> bon.bonus,
                   skill_similarities |-> req.similarities]

(***************************************************************************)
(* Profiles handed to the engine by the parsing pipeline                   *)
(***************************************************************************)
ResumeIds == {"alice", "bob", "carol", "dave", "eve", "frank"}

JobIds == {"ml", "data", "intern", "jx", "jd", "jxd"}

Resumes ==
    [id \in ResumeIds |->
      CASE id = "alice" ->
             [hard_skills |-> <<python, pytorch, sql>>,
              skills_embeddings |-> EmbDict({<<python, <<5, 0>>>>,
                                             <<pytorch, <<3, 4>>>>,
                                             <<sql, <<-3, -4>>>>}),
              resume_embedding |-> Vec(<<4, 3>>),
              total_experience_years |-> Num(70),
              education |-> Text(Master_CS)]
        [] id = "bob" ->
             [hard_skills |-> <<python, SQL_>>,
              skills_embeddings |-> EmbDict({<<python, <<5, 0>>>>}),
              resume_embedding |-> Vec(<<3, 4>>),
              total_experience_years |-> Num(30),
              education |-> Text(Bachelor_CS)]
        [] id = "carol" ->
             [hard_skills |-> <<apache_spark, java>>,
              skills_embeddings |-> EmbDict({}),
              resume_embedding |-> Vec(<<5, 0>>),
              total_experience_years |-> NoneVal,
              education |-> Text(Bootcamp)]
        [] id = "dave" ->
             [hard_skills |-> <<>>,
              skills_embeddings |-> EmbDict({}),
              resume_embedding |-> NoneVec,
              total_experience_years |-> Num(-20),
              education |-> NoneText]
        [] id = "eve" ->
             [hard_skills |-> <<docker>>,
              skills_embeddings |-> NoneDict,
              resume_embedding |-> Vec(<<0, 5>>),
              total_experience_years |-> Num(40),
              education |-> Text(High_School)]
        [] id = "frank" ->
             [hard_skills |-> <<pytorch>>,
              skills_embeddings |-> EmbDict({<<pytorch, <<0, 3, 4>>>>}),
              resume_embedding |-> Vec(<<0, 3, 4>>),
              total_experience_years |-> Num(100),
              education |-> Text(PhD_ML)]]

Jobs ==
    [id \in JobIds |->
      CASE id = "ml" ->
             [required_hard_skills |-> <<python, tensorflow, kubernetes>>,
              nice_to_have_skills |-> <<docker>>,
              required_experience_years |-> Num(50),
              required_education |-> Text(Master_CS),
              skills_embeddings |-> EmbDict({<<python, <<5, 0>>>>,
                                             <<tensorflow, <<4, 3>>>>,
                                             <<kubernetes, <<-5, 0>>>>,
                                             <<docker, <<0, 5>>>>}),
              job_embedding |-> Vec(<<4, 3>>)]
        [] id = "data" ->
             [required_hard_skills |-> <<sql, spark>>,
              nice_to_have_skills |-> <<python>>,
              required_experience_years |-> Num(30),
              required_education |-> Text(Bachelor_CS),
              skills_embeddings |-> EmbDict({<<sql, <<-3, -4>>>>,
                                             <<python, <<5, 0>>>>}),
              job_embedding |-> Vec(<<-3, -4>>)]
        [] id = "intern" ->
             [required_hard_skills |-> <<>>,
              nice_to_have_skills |-> <<java>>,
              required_experience_years |-> Num(0),
              required_education |-> Text(<<>>),
              skills_embeddings |-> EmbDict({}),
              job_embedding |-> Vec(<<0, 5>>)]
        [] id = "jx" ->
             [required_hard_skills |-> <<python, tensorflow>>,
              nice_to_have_skills |-> <<>>,
              required_experience_years |-> [t |-> "str", v |-> 0],
              required_education |-> Text(Bachelor_CS),
              skills_embeddings |-> EmbDict({<<python, <<5, 0>>>>,
                                             <<tensorflow, <<4, 3>>>>}),
              job_embedding |-> Vec(<<3, 4>>)]
        [] id = "jd" ->
             [required_hard_skills |-> <<tensorflow>>,
              nice_to_have_skills |-> <<python>>,
              required_experience_years |-> Num(80),
              required_education |-> NotText,
              skills_embeddings |-> EmbDict({<<python, <<5, 0>>>>,
                                             <<tensorflow, <<4, 3>>>>}),
              job_embedding |-> Vec(<<4, 3>>)]
        [] id = "jxd" ->
             [required_hard_skills |-> <<sql, tensorflow>>,
              nice_to_have_skills |-> <<>>,
              required_experience_years |-> [t |-> "str", v |-> 0],
              required_education |-> NotText,
              skills_embeddings |-> EmbDict({<<sql, <<-3, -4>>>>,
                                             <<tensorflow, <<4, 3>>>>}),
              job_embedding |-> Vec(<<5, 0>>)]]

(***************************************************************************)
(* MatchingEngine                                                          *)
(***************************************************************************)
Scorers == {"semantic", "skills", "experience", "education"}

\* The four sub-scorer invocations of one match, each [exc, ...]
ScorerCalls(rp, jp) ==
    [semantic   |-> SemanticScore(rp.resume_embedding, jp.job_embedding),
     skills     |-> SkillsMatch(rp.hard_skills, jp.required_hard_skills,
                                jp.nice_to_have_skills, rp.skills_embeddings,
                                jp.skills_embeddings),
     experience |-> ExperienceScore(rp.total_experience_years,
                                    jp.required_experience_years),
     education  |-> EducationScore(rp.education, jp.required_education)]

\* Evaluated once per pair of profiles
ScorerCallsOf ==
    [r \in ResumeIds |-> [j \in JobIds |-> ScorerCalls(Resumes[r], Jobs[j])]]

\* _compute_semantic_score: except Exception -> 0.0
ComputeSemanticScore(c) == IF c.exc # "none" THEN 0 ELSE c.value

SkillsFields(m) ==
    [skills_score |-> m.skills_score, matched_skills |-> m.matched_skills,
     missing_skills |-> m.missing_skills, bonus_skills |-> m.bonus_skills,
     skill_similarities |-> m.skill_similarities]

\* _compute_skills_match: except Exception -> every required skill missing
\* (list(job_profile.required_hard_skills) copies the list it is given)
ComputeSkillsMatch(c, jp) ==
    IF c.exc # "none"
    THEN [skills_score |-> 0, matched_skills |-> <<>>,
          missing_skills |-> jp.required_hard_skills, bonus_skills |-> <<>>,
          skill_similarities |-> NoSimilarities]
    ELSE SkillsFields(c)

\* _compute_experience_score: except Exception -> 0.0
ComputeExperienceScore(c) == IF c.exc # "none" THEN 0 ELSE c.value

\* Variant of ComputeEducationScore: the 0.0 fallback of the other scorers
ComputeEducationScoreZero(c) == IF c.exc # "none" THEN 0 ELSE c.value

\* _compute_education_score: except Exception -> 0.3
ComputeEducationScore(c) == IF c.exc # "none" THEN 3000 ELSE c.value

NoResult == [overall_score |-> 0]

\* match, step 6: the MatchResult, unless aggregate() raised
MatchAssemble(agg, semantic_score, skills_result, experience_score, education_score) ==
    IF agg.exc # "none" THEN [exc |-> agg.exc, result |-> NoResult]
    ELSE [exc |-> "none",
          result |-> [overall_score      |-> agg.value,
                      semantic_score     |-> semantic_score,
                      skills_score       |-> skills_result.skills_score,
                      experience_score   |-> experience_score,
                      education_score    |-> education_score,
                      matched_skills     |-> skills_result.matched_skills,
                      missing_skills     |-> skills_result.missing_skills,
                      bonus_skills       |-> skills_result.bonus_skills,
                      skill_similarities |-> skills_result.skill_similarities]]

\* match, step 5: self.score_aggregator.aggregate on the four values
MatchAggregate(d, semantic_score, skills_result, experience_score, education_score) ==
    MatchAssemble(Aggregate(d, Num(semantic_score),
                            Num(skills_result.skills_score),
                            Num(experience_score), Num(education_score)),
                  semantic_score, skills_result, experience_score,
                  education_score)

\* match, steps 1 to 4: the four _compute_* calls
MatchScores(d, calls, jp) ==
    MatchAggregate(d, ComputeSemanticScore(calls.semantic),
                   ComputeSkillsMatch(calls.skills, jp),
                   ComputeExperienceScore(calls.experience),
                   ComputeEducationScore(calls.education))

\* The job_id of a posting whose profile is None
NoProfile == "void"

\* MatchingEngine.match of resume r against job j when the aggregator's
\* self.weights refers to the mapping d.  Returns [exc, result].  The first
\* statement reads job_profile.title, outside every try block.
Match(d, r, j) ==
    IF j = NoProfile THEN [exc |-> "AttributeError", result |-> NoResult]
    ELSE MatchScores(d, ScorerCallsOf[r][j], Jobs[j])

(***************************************************************************)
(* ScoreNormalizer and PercentileCalculator                                *)
(***************************************************************************)
RECURSIVE MinSeq(_)
MinSeq(s) == IF Len(s) = 1 THEN s[1] ELSE Min2(Head(s), MinSeq(Tail(s)))

RECURSIVE MaxSeq(_)
MaxSeq(s) == IF Len(s) = 1 THEN s[1] ELSE Max2(Head(s), MaxSeq(Tail(s)))

\* Variant of Normalize: x / max instead of (x - min) / (max - min)
NormalizeByMax(scores) ==
    IF Len(scores) = 0 THEN <<>>
    ELSE IF Len(scores) = 1 THEN <<SCALE>>
    ELSE IF MaxSeq(scores) = MinSeq(scores)
    THEN [i \in 1..Len(scores) |-> SCALE]
    ELSE [i \in 1..Len(scores) |->
            Clamp01(RoundDiv(scores[i] * SCALE, MaxSeq(scores)))]

\* Variant of Normalize: tied scores are all sent to 0.0
NormalizeTiesZero(scores) ==
    IF Len(scores) = 0 THEN <<>>
    ELSE IF Len(scores) = 1 THEN <<SCALE>>
    ELSE IF MaxSeq(scores) = MinSeq(scores)
    THEN [i \in 1..Len(scores) |-> 0]
    ELSE [i \in 1..Len(scores) |->
            Clamp01(RoundDiv((scores[i] - MinSeq(scores)) * SCALE,
                             MaxSeq(scores) - MinSeq(scores)))]

\* ScoreNormalizer.normalize
Normalize(scores) ==
    IF Len(scores) = 0 THEN <<>>
    ELSE IF Len(scores) = 1 THEN <<SCALE>>
    ELSE IF MaxSeq(scores) = MinSeq(scores)
    THEN [i \in 1..Len(scores) |-> SCALE]
    ELSE [i \in 1..Len(scores) |->
            Clamp01(RoundDiv((scores[i] - MinSeq(scores)) * SCALE,
                             MaxSeq(scores) - MinSeq(scores)))]

\* Variant of Calculate: counts the scores at or below, not strictly below
CalculateAtOrBelow(scores) ==
    IF Len(scores) = 0 THEN <<>>
    ELSE IF Len(scores) = 1 THEN <<SCALE>>
    ELSE [i \in 1..Len(scores) |->
            RoundDiv(Cardinality({k \in 1..Len(scores) : scores[k] <= scores[i]})
                       * SCALE,
                     Len(scores))]

\* Variant of Calculate: the percentiles come out in reversed input order
CalculateReversed(scores) ==
    IF Len(scores) = 0 THEN <<>>
    ELSE IF Len(scores) = 1 THEN <<SCALE>>
    ELSE [i \in 1..Len(scores) |->
            RoundDiv(Cardinality({k \in 1..Len(scores) :
                                    scores[k] < scores[Len(scores) + 1 - i]})
                       * SCALE,
                     Len(scores))]

\* PercentileCalculator.calculate
Calculate(scores) ==
    IF Len(scores) = 0 THEN <<>>
    ELSE IF Len(scores) = 1 THEN <<SCALE>>
    ELSE [i \in 1..Len(scores) |->
            RoundDiv(Cardinality({k \in 1..Len(scores) : scores[k] < scores[i]})
                       * SCALE,
                     Len(scores))]

(***************************************************************************)
(* sorted(items, key=..., reverse=True): descending, equal keys keep their  *)
(* input order.  items is a sequence of object references, key a function  *)
(* from references to scores.                                              *)
(***************************************************************************)
\* x goes behind every element whose key is >= its own
InsertDesc(sorted, x, key) ==
    LET n == Cardinality({k \in 1..Len(sorted) : key[sorted[k]] >= key[x]})
    IN  SubSeq(sorted, 1, n) \o <<x>> \o SubSeq(sorted, n + 1, Len(sorted))

RECURSIVE SortedLoop(_, _, _, _)
SortedLoop(items, key, i, acc) ==
    IF i > Len(items) THEN acc
    ELSE SortedLoop(items, key, i + 1, InsertDesc(acc, items[i], key))

SortedReverse(items, key) == SortedLoop(items, key, 1, <<>>)

(***************************************************************************)
(* Inputs explored                                                         *)
(***************************************************************************)
NoWeights == [t |-> "none", d |-> <<>>]

Dict(f) == [t |-> "dict", d |-> f]

Weights4(se, sk, ex, ed) ==
    [k \in WeightKeys |->
        CASE k = "semantic"   -> se
          [] k = "skills"     -> sk
          [] k = "experience" -> ex
          [] k = "education"  -> ed]

\* The weights arguments a caller passes to the constructor
WeightChoices ==
    { NoWeights,
      Dict([k \in {} |-> 0]),
      Dict(Weights4(2000000, 5000000, 2000000, 1000000)),
      Dict([k \in {"semantic", "skills"} |-> 5000000]),
      Dict(Weights4(5000000, 5000000, 5000000, 5000000)),
      Dict(Weights4(3000005, 4000000, 2000000, 1000000)),
      Dict(Weights4(3000020, 4000000, 2000000, 1000000)),
      Dict([k \in WeightKeys \cup {"bonus"} |->
              IF k = "bonus" THEN 1000000
              ELSE Weights4(3000000, 3000000, 2000000, 1000000)[k]]),
      Dict(Weights4(15000000, -5000000, 0, 0)) }

\* What the caller may later do to the mapping it passed in
MutatedKeys == {"skills", "education"}

MutatedValues == {5000000}

\* Arguments of direct aggregate() calls: None, below 0, inside, above 1
AggregateInputs == {NoneVal, Num(-5000), Num(6000), Num(15000)}

PoolResumeIds == {"alice", "bob", "carol", "dave"}

PoolJobIds == {"ml", "data", "intern", "jxd"}

\* Jobs and <<top_n, min_score>> arguments of the shortlist calls
ShortlistJobIds == {"data"}

ShortlistArgs == {<<0, 0>>, <<1, 5000>>}

\* Sequences without repetition over S of length at most n
DistinctSeqs(S, n) ==
    {q \in UNION {[1..m -> S] : m \in 0..n} :
        \A a, b \in DOMAIN q : a # b => q[a] # q[b]}

\* Job pools in which one posting has no profile
BrokenPools ==
    {p \in DistinctSeqs({"data", "intern", NoProfile}, MaxPool) :
        NoProfile \in Range(p)}

(***************************************************************************)
(* State                                                                   *)
(***************************************************************************)
VARIABLES
    callerWeights,      \* the mapping object the caller passed as weights
    engine,             \* "unbuilt", "built", or "failed" (constructor raised)
    weightsRef,         \* what self.weights refers to: "own" copy or "caller" object
    validated,          \* the weight values _validate_weights accepted
    mutations,          \* caller's modifications of its mapping so far
    call,               \* the last aggregate() or match() call and its outcome
    rankPc,             \* position of the rank() call in progress
    rankDir,            \* "jobs": rank_jobs_for_resume, "resumes": rank_resumes_for_job
    rankFixed,          \* id of the fixed profile
    pool,               \* ids of the pool members, in pool order
    match_results,
    raw_scores,
    normalized_scores,
    percentiles,
    results,            \* the RankingResult objects, in creation order
    ranked,             \* the sorted list, as references into results
    matcher_calls,      \* self.matcher.match invocations of the call in progress
    shortArgs,          \* <<top_n, min_score>> of a shortlist call, else NoShortlist
    shortlist,          \* the list a shortlist call returns, as references
    other,              \* the call frame of a second thread using the same engine
    store,              \* the rows of the JobStore's jobs table, by job_id
    clock               \* what datetime.now() returns

vars == <<callerWeights, engine, weightsRef, validated, mutations, call,
          rankPc, rankDir, rankFixed, pool, match_results, raw_scores,
          normalized_scores, percentiles, results, ranked, matcher_calls,
          shortArgs, shortlist, other, store, clock>>

\* The JobStore's database and the time of day
storeVars == <<store, clock>>

rankVars == <<rankPc, rankDir, rankFixed, pool, match_results, raw_scores,
              normalized_scores, percentiles, results, ranked, matcher_calls,
              shortArgs, shortlist>>

\* The arguments of the call in progress
rankArgs == <<rankDir, rankFixed, pool, shortArgs>>

\* A call of rank_jobs_for_resume or rank_resumes_for_job has no shortlist arguments
NoShortlist == <<>>

engineVars == <<callerWeights, engine, weightsRef, validated, mutations>>

NoCall == [op |-> "none"]

\* self.weights of the engine's ScoreAggregator
SelfWeights == IF weightsRef = "caller" THEN callerWeights.d ELSE DEFAULT_WEIGHTS

\* No call is in progress and no outcome is being held
Idle == rankPc = "idle" /\ call = NoCall

RankCleared ==
    /\ rankPc' = "idle"
    /\ rankDir' = "none"
    /\ rankFixed' = "none"
    /\ pool' = <<>>
    /\ match_results' = <<>>
    /\ raw_scores' = <<>>
    /\ normalized_scores' = <<>>
    /\ percentiles' = <<>>
    /\ results' = <<>>
    /\ ranked' = <<>>
    /\ matcher_calls' = 0
    /\ shortArgs' = NoShortlist
    /\ shortlist' = <<>>

\* The jobs table after CREATE TABLE IF NOT EXISTS on a new database
EmptyStore == << >>

\* A thread that is in no call: the locals of rank() and the last outcome
IdleFrame ==
    [pc |-> "idle", dir |-> "none", fixed |-> "none", pool |-> <<>>,
     match_results |-> <<>>, raw_scores |-> <<>>, normalized_scores |-> <<>>,
     percentiles |-> <<>>, results |-> <<>>, ranked |-> <<>>, call |-> NoCall]

Init ==
    /\ other = IdleFrame
    /\ store = EmptyStore
    /\ clock = 0
    /\ callerWeights = NoWeights
    /\ engine = "unbuilt"
    /\ weightsRef = "none"
    /\ validated = DEFAULT_WEIGHTS
    /\ mutations = 0
    /\ call = NoCall
    /\ rankPc = "idle"
    /\ rankDir = "none"
    /\ rankFixed = "none"
    /\ pool = <<>>
    /\ match_results = <<>>
    /\ raw_scores = <<>>
    /\ normalized_scores = <<>>
    /\ percentiles = <<>>
    /\ results = <<>>
    /\ ranked = <<>>
    /\ matcher_calls = 0
    /\ shortArgs = NoShortlist
    /\ shortlist = <<>>

(***************************************************************************)
(* Construction                                                            *)
(***************************************************************************)
\* self.weights = weights or self.DEFAULT_WEIGHTS.copy()
InitialWeights(w) == IF Truthy(w) THEN w.d ELSE DEFAULT_WEIGHTS

InitialRef(w) == IF Truthy(w) THEN "caller" ELSE "own"

\* MatchingEngine(weights=w), which runs ScoreAggregator(weights=w)
Construct(w) ==
    /\ engine = "unbuilt"
    /\ callerWeights' = w
    /\ IF ValidateWeights(InitialWeights(w)) = "ok"
       THEN /\ engine' = "built"
            /\ weightsRef' = InitialRef(w)
            /\ validated' = InitialWeights(w)
       ELSE /\ engine' = "failed"
            /\ weightsRef' = "none"
            /\ UNCHANGED validated
    /\ UNCHANGED <<storeVars, other, mutations, call, rankVars>>

\* The caller assigns to a key of the mapping it passed in
CallerSetsWeight(k, v) ==
    /\ engine = "built"
    /\ Idle
    /\ callerWeights.t = "dict"
    /\ mutations < MaxMutations
    /\ callerWeights' =
         Dict([x \in DOMAIN callerWeights.d \cup {k} |->
                  IF x = k THEN v ELSE callerWeights.d[x]])
    /\ mutations' = mutations + 1
    /\ UNCHANGED <<storeVars, other, engine, weightsRef, validated, call, rankVars>>

\* The caller deletes a key of the mapping it passed in
CallerDeletesWeight(k) ==
    /\ engine = "built"
    /\ Idle
    /\ callerWeights.t = "dict"
    /\ k \in DOMAIN callerWeights.d
    /\ mutations < MaxMutations
    /\ callerWeights' =
         Dict([x \in DOMAIN callerWeights.d \ {k} |-> callerWeights.d[x]])
    /\ mutations' = mutations + 1
    /\ UNCHANGED <<storeVars, other, engine, weightsRef, validated, call, rankVars>>

(***************************************************************************)
(* Calls on the built engine                                               *)
(***************************************************************************)
\* What the caller of aggregate() observes: the value or the exception
AggregateOutcome(args, out) ==
    [op |-> "aggregate", args |-> args, exc |-> out.exc, value |-> out.value]

\* engine.score_aggregator.aggregate(a, b, c, e)
AggregateCall(a, b, c, e) ==
    /\ engine = "built"
    /\ Idle
    /\ call' = AggregateOutcome(<<a, b, c, e>>,
                                Aggregate(SelfWeights, a, b, c, e))
    /\ UNCHANGED <<storeVars, other, engineVars, rankVars>>

\* What the caller of match() observes: the MatchResult or the exception
MatchOutcome(r, j, out) ==
    [op |-> "match", resume |-> r, job |-> j, exc |-> out.exc,
     result |-> out.result]

\* engine.match(Resumes[r], Jobs[j])
MatchCall(r, j) ==
    /\ engine = "built"
    /\ Idle
    /\ call' = MatchOutcome(r, j, Match(SelfWeights, r, j))
    /\ UNCHANGED <<storeVars, other, engineVars, rankVars>>

(***************************************************************************)
(* MultiJobRanker.rank / MultiResumeRanker.rank, one step per phase        *)
(***************************************************************************)
\* self.matcher.match(resume, job_profile) resp. match(resume_profile, job)
MemberMatch(d, dir, fixed, member) ==
    Match(d, IF dir = "jobs" THEN fixed ELSE member,
             IF dir = "jobs" THEN member ELSE fixed)

\* Variant of BuildResults: the percentiles are attached in reverse pool order
BuildResultsPercentilesReversed(dir, members, matches, percs, normed) ==
    [i \in 1..Len(members) |->
        [rank             |-> 0,
         resume_id        |-> IF dir = "resumes" THEN members[i] ELSE "",
         job_id           |-> IF dir = "jobs" THEN members[i] ELSE "",
         match_result     |-> matches[i],
         percentile       |-> percs[Len(members) + 1 - i],
         normalized_score |-> normed[i]]]

\* Variant of BuildResults: the rank is assigned at assembly, in pool order
BuildResultsNumbered(dir, members, matches, percs, normed) ==
    [i \in 1..Len(members) |->
        [rank             |-> i,
         resume_id        |-> IF dir = "resumes" THEN members[i] ELSE "",
         job_id           |-> IF dir = "jobs" THEN members[i] ELSE "",
         match_result     |-> matches[i],
         percentile       |-> percs[i],
         normalized_score |-> normed[i]]]

\* Step 4: one RankingResult per pool member, rank 0, the other id empty
BuildResults(dir, members, matches, percs, normed) ==
    [i \in 1..Len(members) |->
        [rank             |-> 0,
         resume_id        |-> IF dir = "resumes" THEN members[i] ELSE "",
         job_id           |-> IF dir = "jobs" THEN members[i] ELSE "",
         match_result     |-> matches[i],
         percentile       |-> percs[i],
         normalized_score |-> normed[i]]]

\* key=lambda r: r.overall_score
OverallScoreKey(objs) == [i \in DOMAIN objs |-> objs[i].match_result.overall_score]

\* Variant of SortResults: ascending stable sort, then reversed
SortResultsReversedAscending(objs) ==
    LET key == OverallScoreKey(objs)
        asc == SortedReverse([i \in 1..Len(objs) |-> i],
                             [i \in DOMAIN objs |-> 0 - key[i]])
    IN  [k \in 1..Len(asc) |-> asc[Len(asc) + 1 - k]]

\* Step 5: sorted(unsorted_results, key=..., reverse=True)
SortResults(objs) ==
    SortedReverse([i \in 1..Len(objs) |-> i], OverallScoreKey(objs))

\* Variant of AssignRanks: enumerate without start=1
AssignRanksFromZero(objs, order) ==
    [i \in DOMAIN objs |->
        [objs[i] EXCEPT !.rank = (CHOOSE k \in 1..Len(order) : order[k] = i) - 1]]

\* Step 6: for position, result in enumerate(ranked, start=1)
AssignRanks(objs, order) ==
    [i \in DOMAIN objs |->
        [objs[i] EXCEPT !.rank = CHOOSE k \in 1..Len(order) : order[k] = i]]

\* Variant of RankEnter: the empty pool is not returned early
RankEnterNoEmptyCheck(dir, fixed, members, short) ==
    /\ engine = "built"
    /\ Idle
    /\ rankDir' = dir
    /\ rankFixed' = fixed
    /\ pool' = members
    /\ shortArgs' = short
    /\ rankPc' = "score"
    /\ match_results' = <<>>
    /\ raw_scores' = <<>>
    /\ normalized_scores' = <<>>
    /\ percentiles' = <<>>
    /\ results' = <<>>
    /\ ranked' = <<>>
    /\ matcher_calls' = 0
    /\ shortlist' = <<>>
    /\ UNCHANGED <<storeVars, other, engineVars, call>>

\* The entry of rank(): "if not resumes: return []", else on to step 1
RankEnter(dir, fixed, members, short) ==
    /\ engine = "built"
    /\ Idle
    /\ rankDir' = dir
    /\ rankFixed' = fixed
    /\ pool' = members
    /\ shortArgs' = short
    /\ rankPc' = IF Len(members) # 0 THEN "score"
                 ELSE IF short = NoShortlist THEN "done" ELSE "filter"
    /\ match_results' = <<>>
    /\ raw_scores' = <<>>
    /\ normalized_scores' = <<>>
    /\ percentiles' = <<>>
    /\ results' = <<>>
    /\ ranked' = <<>>
    /\ matcher_calls' = 0
    /\ shortlist' = <<>>
    /\ UNCHANGED <<storeVars, other, engineVars, call>>

\* rank_jobs_for_resume (dir = "jobs") or rank_resumes_for_job ("resumes")
RankStart(dir, fixed, members) == RankEnter(dir, fixed, members, NoShortlist)

\* shortlist_resumes(job, resumes, top_n, min_score)
ShortlistStart(fixed, members, top_n, min_score) ==
    RankEnter("resumes", fixed, members, <<top_n, min_score>>)

\* Step 1, the loop body on the outcome m of the member's match
ScoreMember(m) ==
    IF m.exc # "none"
    THEN /\ rankPc' = "raised"
         /\ match_results' = <<>>
         /\ raw_scores' = <<>>
    ELSE /\ rankPc' = "score"
         /\ match_results' = Append(match_results, m.result)
         /\ raw_scores' = Append(raw_scores, m.result.overall_score)

\* Step 1, one pool member: a raising matcher ends the call
RankScore ==
    /\ rankPc = "score"
    /\ Len(raw_scores) < Len(pool)
    /\ ScoreMember(MemberMatch(SelfWeights, rankDir, rankFixed,
                               pool[Len(raw_scores) + 1]))
    /\ matcher_calls' = matcher_calls + 1
    /\ UNCHANGED <<storeVars, other, engineVars, call, rankArgs, shortlist,
                   normalized_scores, percentiles, results, ranked>>

\* Step 2
RankNormalize ==
    /\ rankPc = "score"
    /\ Len(raw_scores) = Len(pool)
    /\ normalized_scores' = Normalize(raw_scores)
    /\ rankPc' = "percentile"
    /\ UNCHANGED <<storeVars, other, engineVars, call, rankArgs, shortlist, matcher_calls, match_results,
                   raw_scores, percentiles, results, ranked>>

\* Step 3
RankPercentile ==
    /\ rankPc = "percentile"
    /\ percentiles' = Calculate(raw_scores)
    /\ rankPc' = "assemble"
    /\ UNCHANGED <<storeVars, other, engineVars, call, rankArgs, shortlist, matcher_calls, match_results,
                   raw_scores, normalized_scores, results, ranked>>

\* Step 4
RankAssemble ==
    /\ rankPc = "assemble"
    /\ results' = BuildResults(rankDir, pool, match_results, percentiles,
                               normalized_scores)
    /\ rankPc' = "sort"
    /\ UNCHANGED <<storeVars, other, engineVars, call, rankArgs, shortlist, matcher_calls, match_results,
                   raw_scores, normalized_scores, percentiles, ranked>>

\* Step 5
RankSort ==
    /\ rankPc = "sort"
    /\ ranked' = SortResults(results)
    /\ rankPc' = "assign"
    /\ UNCHANGED <<storeVars, other, engineVars, call, rankArgs, shortlist, matcher_calls, match_results,
                   raw_scores, normalized_scores, percentiles, results>>

\* Step 6 and the return
RankAssign ==
    /\ rankPc = "assign"
    /\ results' = AssignRanks(results, ranked)
    /\ rankPc' = IF shortArgs = NoShortlist THEN "done" ELSE "filter"
    /\ UNCHANGED <<storeVars, other, engineVars, call, rankArgs, shortlist, matcher_calls, match_results,
                   raw_scores, normalized_scores, percentiles, ranked>>

\* Variant of SelectShortlist: the last top_n of the qualifying results
SelectShortlistLast(objs, order, top_n, min_score) ==
    LET kept == SelectSeq(order,
                          LAMBDA i : objs[i].match_result.overall_score >= min_score)
    IN  SubSeq(kept, Len(kept) + 1 - Min2(top_n, Len(kept)), Len(kept))

\* [r for r in ranked if r.overall_score >= min_score][:top_n]
SelectShortlist(objs, order, top_n, min_score) ==
    LET kept == SelectSeq(order,
                          LAMBDA i : objs[i].match_result.overall_score >= min_score)
    IN  SubSeq(kept, 1, Min2(top_n, Len(kept)))

\* get_shortlist after its rank() call has returned
RankShortlist ==
    /\ rankPc = "filter"
    /\ shortlist' = SelectShortlist(results, ranked, shortArgs[1], shortArgs[2])
    /\ rankPc' = "shortlisted"
    /\ UNCHANGED <<storeVars, other, engineVars, call, rankArgs, matcher_calls, match_results,
                   raw_scores, normalized_scores, percentiles, results, ranked>>

\* The caller is done with the outcome of the last call
Discard ==
    /\ \/ call # NoCall
       \/ rankPc \in {"done", "raised", "shortlisted"}
    /\ call' = NoCall
    /\ RankCleared
    /\ UNCHANGED <<storeVars, other, engineVars>>

\* The list a finished rank() call returned
Returned == [k \in 1..Len(ranked) |-> results[ranked[k]]]

(***************************************************************************)
(* Specification                                                           *)
(***************************************************************************)
\* the callers of one built engine: none of them starts while a call is open
CallStartAny ==
    /\ engine = "built"
    /\ Idle
    /\ \/ \E a, b, c, e \in AggregateInputs : AggregateCall(a, b, c, e)
       \/ \E r \in ResumeIds, j \in JobIds : MatchCall(r, j)
       \/ \E f \in PoolResumeIds, p \in DistinctSeqs(PoolJobIds, MaxPool) :
             RankStart("jobs", f, p)
       \/ \E f \in PoolJobIds, p \in DistinctSeqs(PoolResumeIds, MaxPool) :
             RankStart("resumes", f, p)
       \/ \E p \in BrokenPools : RankStart("jobs", "alice", p)
       \/ \E f \in ShortlistJobIds, p \in DistinctSeqs(PoolResumeIds, MaxPool),
             a \in ShortlistArgs :
             ShortlistStart(f, p, a[1], a[2])

Next ==
    \/ \E w \in WeightChoices : Construct(w)
    \/ \E k \in MutatedKeys, v \in MutatedValues : CallerSetsWeight(k, v)
    \/ \E k \in MutatedKeys : CallerDeletesWeight(k)
    \/ CallStartAny
    \/ RankScore
    \/ RankNormalize
    \/ RankPercentile
    \/ RankAssemble
    \/ RankSort
    \/ RankAssign
    \/ RankShortlist
    \/ Discard

Spec == Init /\ [][Next]_vars

(***************************************************************************)
(* Two threads on one engine.  The first thread is the call frame of the   *)
(* variables above; the second thread's frame is the record other.  Both   *)
(* read self.weights of the same aggregator; everything else a call        *)
(* touches is a local of rank() or match().                                *)
(***************************************************************************)
MaxConcPool == 2

ConcResumeIds == {"alice", "bob", "carol"}

ConcJobIds == {"data", "intern"}

\* MatchingEngine() has been constructed with the default weights
ConcInit ==
    /\ other = IdleFrame
    /\ store = EmptyStore
    /\ clock = 0
    /\ callerWeights = NoWeights
    /\ engine = "built"
    /\ weightsRef = "own"
    /\ validated = DEFAULT_WEIGHTS
    /\ mutations = 0
    /\ call = NoCall
    /\ rankPc = "idle"
    /\ rankDir = "none"
    /\ rankFixed = "none"
    /\ pool = <<>>
    /\ match_results = <<>>
    /\ raw_scores = <<>>
    /\ normalized_scores = <<>>
    /\ percentiles = <<>>
    /\ results = <<>>
    /\ ranked = <<>>
    /\ matcher_calls = 0
    /\ shortArgs = NoShortlist
    /\ shortlist = <<>>

firstThreadVars == <<engineVars, call, rankVars>>

\* Second thread: rank() entered
OtherStart(dir, fixed, members) ==
    /\ engine = "built"
    /\ other = IdleFrame
    /\ other' = [IdleFrame EXCEPT
                   !.pc = IF Len(members) = 0 THEN "done" ELSE "score",
                   !.dir = dir, !.fixed = fixed, !.pool = members]
    /\ UNCHANGED <<storeVars, firstThreadVars>>

\* Second thread, step 1 loop body on the outcome m of the member's match
OtherScoreMember(m) ==
    IF m.exc # "none"
    THEN [other EXCEPT !.pc = "raised", !.match_results = <<>>,
                       !.raw_scores = <<>>]
    ELSE [other EXCEPT !.match_results = Append(@, m.result),
                       !.raw_scores = Append(@, m.result.overall_score)]

\* Second thread, step 1, one pool member
OtherScore ==
    /\ other.pc = "score"
    /\ Len(other.raw_scores) < Len(other.pool)
    /\ other' = OtherScoreMember(
                    MemberMatch(SelfWeights, other.dir, other.fixed,
                                other.pool[Len(other.raw_scores) + 1]))
    /\ UNCHANGED <<storeVars, firstThreadVars>>

\* Variant of OtherNormalized: raw_scores is an attribute of the shared ranker
OtherNormalizedShared == Normalize(raw_scores)

\* normalized_scores = self.normalizer.normalize(raw_scores), raw_scores a local
OtherNormalized == Normalize(other.raw_scores)

\* Second thread, step 2
OtherNormalize ==
    /\ other.pc = "score"
    /\ Len(other.raw_scores) = Len(other.pool)
    /\ other' = [other EXCEPT !.normalized_scores = OtherNormalized,
                              !.pc = "percentile"]
    /\ UNCHANGED <<storeVars, firstThreadVars>>

\* Second thread, step 3
OtherPercentile ==
    /\ other.pc = "percentile"
    /\ other' = [other EXCEPT !.percentiles = Calculate(other.raw_scores),
                              !.pc = "assemble"]
    /\ UNCHANGED <<storeVars, firstThreadVars>>

\* Second thread, step 4
OtherAssemble ==
    /\ other.pc = "assemble"
    /\ other' = [other EXCEPT
                   !.results = BuildResults(other.dir, other.pool,
                                            other.match_results,
                                            other.percentiles,
                                            other.normalized_scores),
                   !.pc = "sort"]
    /\ UNCHANGED <<storeVars, firstThreadVars>>

\* Variant of OtherSorted: a sort that does not keep the order of equal keys
OtherSortedTiesReversed == SortResultsReversedAscending(other.results)

\* ranked = sorted(unsorted_results, key=..., reverse=True)
OtherSorted == SortResults(other.results)

\* Second thread, step 5
OtherSort ==
    /\ other.pc = "sort"
    /\ other' = [other EXCEPT !.ranked = OtherSorted, !.pc = "assign"]
    /\ UNCHANGED <<storeVars, firstThreadVars>>

\* Second thread, step 6 and the return
OtherAssign ==
    /\ other.pc = "assign"
    /\ other' = [other EXCEPT !.results = AssignRanks(other.results, other.ranked),
                              !.pc = "done"]
    /\ UNCHANGED <<storeVars, firstThreadVars>>

\* Second thread: engine.match(Resumes[r], Jobs[j])
OtherMatchCall(r, j) ==
    /\ engine = "built"
    /\ other = IdleFrame
    /\ other' = [IdleFrame EXCEPT
                   !.pc = "matched",
                   !.call = MatchOutcome(r, j, Match(SelfWeights, r, j))]
    /\ UNCHANGED <<storeVars, firstThreadVars>>

\* Second thread: the caller is done with the outcome
OtherDiscard ==
    /\ other.pc \in {"done", "raised", "matched"}
    /\ other' = IdleFrame
    /\ UNCHANGED <<storeVars, firstThreadVars>>

\* The list the second thread's finished rank() call returned
OtherReturned == [k \in 1..Len(other.ranked) |-> other.results[other.ranked[k]]]

ConcNext ==
    \/ \E f \in ConcResumeIds, p \in DistinctSeqs(ConcJobIds, MaxConcPool) :
          RankStart("jobs", f, p)
    \/ \E f \in ConcJobIds, p \in DistinctSeqs(ConcResumeIds, MaxConcPool) :
          RankStart("resumes", f, p)
    \/ \E r \in ConcResumeIds, j \in ConcJobIds : MatchCall(r, j)
    \/ RankScore
    \/ RankNormalize
    \/ RankPercentile
    \/ RankAssemble
    \/ RankSort
    \/ RankAssign
    \/ Discard
    \/ \E f \in ConcResumeIds, p \in DistinctSeqs(ConcJobIds, MaxConcPool) :
          OtherStart("jobs", f, p)
    \/ \E f \in ConcJobIds, p \in DistinctSeqs(ConcResumeIds, MaxConcPool) :
          OtherStart("resumes", f, p)
    \/ \E r \in ConcResumeIds, j \in ConcJobIds : OtherMatchCall(r, j)
    \/ OtherScore
    \/ OtherNormalize
    \/ OtherPercentile
    \/ OtherAssemble
    \/ OtherSort
    \/ OtherAssign
    \/ OtherDiscard

ConcSpec == ConcInit /\ [][ConcNext]_vars

(***************************************************************************)
(* Properties                                                              *)
(***************************************************************************)
RankReturned == rankPc = "done" /\ Len(pool) > 0

RawScoreOf(res) == res.match_result.overall_score

\* The pool member a returned result stands for
MemberId(res) == IF rankDir = "jobs" THEN res.job_id ELSE res.resume_id

PoolIndex(id) == CHOOSE i \in 1..Len(pool) : pool[i] = id

\* C1: a ranking call over a non-empty pool of N members returns N results
\* whose ranks are 1..N, the result at list position k (1-based) having
\* rank k; none keeps the unassigned rank 0.
C1_DenseRanks ==
    RankReturned =>
        /\ Len(Returned) = Len(pool)
        /\ \A k \in 1..Len(Returned) : Returned[k].rank = k
        /\ {Returned[k].rank : k \in 1..Len(Returned)} = 1..Len(pool)

C1_Witness ==
    /\ RankReturned
    /\ Len(pool) >= 3
    /\ Returned[1].rank = 1
    /\ MemberId(Returned[1]) # pool[1]

\* C2: the returned list is ordered by non-increasing raw overall score,
\* rank 1 holds the maximum raw score of the pool, and members with equal
\* raw score keep their relative pool order.
C2_SortedDescendingStable ==
    RankReturned =>
        /\ \A a, b \in 1..Len(Returned) :
              a < b =>
                /\ RawScoreOf(Returned[a]) >= RawScoreOf(Returned[b])
                /\ RawScoreOf(Returned[a]) = RawScoreOf(Returned[b])
                     => PoolIndex(MemberId(Returned[a]))
                          < PoolIndex(MemberId(Returned[b]))
        /\ RawScoreOf(Returned[1]) = MaxSeq(raw_scores)

C2_Witness ==
    /\ RankReturned
    /\ \E a, b, c \in 1..Len(pool) :
          /\ a < b
          /\ raw_scores[a] = raw_scores[b]
          /\ raw_scores[c] > raw_scores[a]
          /\ c > b

\* The sub-scorers that raise when r is matched against j
Failing(r, j) ==
    {k \in Scorers : ScorerCalls(Resumes[r], Jobs[j])[k].exc # "none"}

\* C3: whichever sub-scorers raise, match() does not abort because of them
\* (it raises only when the aggregator itself cannot read a weight); the
\* returned MatchResult holds the fallback of every failing scorer
\* (semantic 0.0; skills 0.0, nothing matched, every required skill
\* missing; experience 0.0; education 0.30), the own value of every other
\* scorer, and as overall score the aggregate of these four values.
C3_ScorerFailuresIsolated ==
    call.op = "match" =>
        LET c == ScorerCalls(Resumes[call.resume], Jobs[call.job])
            f == Failing(call.resume, call.job)
            m == call.result
        IN  /\ call.exc # "none" => WeightKeys \ DOMAIN SelfWeights # {}
            /\ call.exc = "none" =>
                 /\ m.semantic_score =
                      IF "semantic" \in f THEN 0 ELSE c.semantic.value
                 /\ m.experience_score =
                      IF "experience" \in f THEN 0 ELSE c.experience.value
                 /\ m.education_score =
                      IF "education" \in f THEN 3000 ELSE c.education.value
                 /\ "skills" \in f =>
                      /\ m.skills_score = 0
                      /\ m.matched_skills = <<>>
                      /\ m.missing_skills = Jobs[call.job].required_hard_skills
                 /\ "skills" \notin f =>
                      /\ m.skills_score = c.skills.skills_score
                      /\ m.matched_skills = c.skills.matched_skills
                      /\ m.missing_skills = c.skills.missing_skills
                 /\ m.overall_score =
                      Aggregate(SelfWeights, Num(m.semantic_score),
                                Num(m.skills_score), Num(m.experience_score),
                                Num(m.education_score)).value

C3_Witness ==
    /\ call.op = "match"
    /\ call.exc = "none"
    /\ Failing(call.resume, call.job) = {"skills", "education"}
    /\ call.result.education_score = 3000
    /\ call.result.semantic_score > 0

\* C4: in a returned MatchResult (the job's required list having no
\* duplicates) matched_skills and missing_skills are disjoint, free of
\* duplicates, and together are exactly the job's required skills.
C4_SkillsPartition ==
    (call.op = "match" /\ call.exc = "none") =>
        LET req     == Jobs[call.job].required_hard_skills
            matched == call.result.matched_skills
            missing == call.result.missing_skills
        IN  Cardinality(Range(req)) = Len(req) =>
              /\ Range(matched) \cap Range(missing) = {}
              /\ Cardinality(Range(matched)) = Len(matched)
              /\ Cardinality(Range(missing)) = Len(missing)
              /\ Range(matched) \cup Range(missing) = Range(req)

C4_Witness ==
    /\ call.op = "match"
    /\ call.exc = "none"
    /\ Failing(call.resume, call.job) = {}
    /\ Len(call.result.matched_skills) >= 2
    /\ Len(call.result.missing_skills) >= 1

\* A weight mapping as the specification wants it: the four named weights
\* are all present and sum to 1.0 within 1e-6
FourWeightsValid(d) ==
    /\ WeightKeys \subseteq DOMAIN d
    /\ Abs(d["semantic"] + d["skills"] + d["experience"] + d["education"]
             - WUNIT) <= WEIGHT_TOLERANCE

\* C5: construction with a caller-supplied mapping succeeds only if the
\* mapping supplies all four named weights and they sum to 1.0 within 1e-6.
C5_SuppliedWeightsValidated ==
    (engine = "built" /\ mutations = 0 /\ callerWeights.t = "dict")
        => FourWeightsValid(callerWeights.d)

\* C6: every aggregate() and match() call after construction uses the
\* weights validated at construction, whatever happened in between.
C6_WeightsFixedAtConstruction ==
    /\ call.op = "aggregate" =>
         [exc |-> call.exc, value |-> call.value]
           = Aggregate(validated, call.args[1], call.args[2], call.args[3],
                       call.args[4])
    /\ call.op = "match" =>
         [exc |-> call.exc, result |-> call.result]
           = Match(validated, call.resume, call.job)

\* C7: a failed construction leaves no engine to call, and once
\* construction succeeded no match() call fails because of the weights.
C7_WeightFailureOnlyAtConstruction ==
    /\ engine = "failed" => (call = NoCall /\ rankPc = "idle")
    /\ call.op = "match" => call.exc = "none"

\* C8: a value returned by aggregate() lies in [0,1] for every accepted
\* weight set and all inputs (None, below 0, above 1), and is the value
\* returned for the inputs clamped to [0,1].
C8_AggregateInUnitInterval ==
    (call.op = "aggregate" /\ call.exc = "none") =>
        /\ call.value \in 0..SCALE
        /\ call.value =
             Aggregate(SelfWeights, Num(ClampInput(call.args[1])),
                       Num(ClampInput(call.args[2])),
                       Num(ClampInput(call.args[3])),
                       Num(ClampInput(call.args[4]))).value

C8_Witness ==
    /\ call.op = "aggregate"
    /\ call.exc = "none"
    /\ call.args = <<Num(15000), Num(-5000), NoneVal, Num(6000)>>
    /\ \E k \in WeightKeys : SelfWeights[k] < 0
    /\ call.value = SCALE

\* C9: the five scores of every returned MatchResult lie in [0,1].
C9_MatchScoresInUnitInterval ==
    (call.op = "match" /\ call.exc = "none") =>
        /\ call.result.overall_score \in 0..SCALE
        /\ call.result.semantic_score \in 0..SCALE
        /\ call.result.skills_score \in 0..SCALE
        /\ call.result.experience_score \in 0..SCALE
        /\ call.result.education_score \in 0..SCALE

C9_Witness ==
    /\ call.op = "match"
    /\ call.exc = "none"
    /\ Failing(call.resume, call.job) = {}
    /\ SemanticCosine(Resumes[call.resume].resume_embedding.v,
                      Jobs[call.job].job_embedding.v) < 0
    /\ call.result.semantic_score = 0

\* C10: when the pool holds at least two distinct raw overall scores, the
\* rank-1 result has normalized_score 1.0 and the last-ranked one 0.0.
C10_BestOneWorstZero ==
    (RankReturned /\ \E a, b \in 1..Len(Returned) :
                        RawScoreOf(Returned[a]) # RawScoreOf(Returned[b])) =>
        /\ Returned[1].normalized_score = SCALE
        /\ Returned[Len(Returned)].normalized_score = 0

C10_Witness ==
    /\ RankReturned
    /\ Len(pool) >= 3
    /\ MinSeq(raw_scores) > 0
    /\ Cardinality(Range(raw_scores)) = Len(pool)
    /\ Returned[1].normalized_score = SCALE
    /\ Returned[Len(Returned)].normalized_score = 0

\* The pool members whose raw overall score is strictly below that of res
StrictlyLower(res) == {i \in 1..Len(raw_scores) : raw_scores[i] < RawScoreOf(res)}

\* C11 as stated: for every pool size N >= 1 the percentile of every
\* returned result is the number of pool members with a strictly lower raw
\* score divided by N (to 4 decimals).
C11_PercentileAllSizes ==
    RankReturned =>
        \A k \in 1..Len(Returned) :
            Returned[k].percentile =
                RoundDiv(Cardinality(StrictlyLower(Returned[k])) * SCALE, Len(pool))

\* C11 amended: for a pool of N >= 2 members the percentile of every
\* returned result is the number of pool members with a strictly lower raw
\* score divided by N, rounded to 4 decimals; the single result of a pool
\* of one member has percentile 1.0.
C11_PercentileStrictlyLower ==
    RankReturned =>
        \A k \in 1..Len(Returned) :
            Returned[k].percentile =
                IF Len(pool) = 1 THEN SCALE
                ELSE RoundDiv(Cardinality(StrictlyLower(Returned[k])) * SCALE,
                              Len(pool))

C11_Witness ==
    /\ RankReturned
    /\ Len(pool) = 3
    /\ \E a, b \in 1..3 :
          /\ a # b
          /\ RawScoreOf(Returned[a]) = RawScoreOf(Returned[b])
          /\ Returned[a].percentile = 3333
          /\ Returned[b].percentile = 3333

\* A ranking or shortlist call is in progress or has just returned
InRankCall == rankPc # "idle"

\* C12: a call of rank_jobs_for_resume, rank_resumes_for_job or
\* shortlist_resumes on an empty pool raises nothing, never invokes the
\* matcher, and returns the empty list.
C12_EmptyPoolEmptyResult ==
    (InRankCall /\ pool = <<>>) =>
        /\ rankPc \in {"done", "filter", "shortlisted"}
        /\ matcher_calls = 0
        /\ Returned = <<>>
        /\ shortlist = <<>>

C12_Witness ==
    /\ rankPc = "shortlisted"
    /\ pool = <<>>
    /\ shortlist = <<>>
    /\ WeightKeys \ DOMAIN SelfWeights # {}

(***************************************************************************)
(* The engine's components called on their own: SkillsMatcher.match and    *)
(* ScoreNormalizer.normalize on inputs drawn from bounded sets             *)
(***************************************************************************)
MaxSkills == 2

MaxScores == 3

\* Candidate-side and job-side skill names
CandidateSkillNames == {SQL_, pytorch, apache_spark}

JobSkillNames == {sql, tensorflow, spark}

\* Names a job may list as nice-to-have, some of them also required
NiceSkillNames == {tensorflow, spark}

\* candidateSkillEmbeddings: complete but for one skill, empty, None, and of
\* another dimension with one zero vector
CandidateEmbeddings ==
    {EmbDict({<<SQL_, <<-3, -4>>>>, <<pytorch, <<3, 4>>>>}),
     EmbDict({}),
     NoneDict,
     EmbDict({<<SQL_, <<0, 0, 0>>>>, <<pytorch, <<0, 3, 4>>>>})}

\* jobSkillEmbeddings: complete but for one skill, empty, None
JobEmbeddings ==
    {EmbDict({<<sql, <<-3, -4>>>>, <<tensorflow, <<0, 5>>>>}),
     EmbDict({}),
     NoneDict}

\* Raw overall scores handed to the normalizer
ScoreValues == {0, 3333, 5000, 7400, SCALE}

ScoreLists == UNION {[1..n -> ScoreValues] : n \in 0..MaxScores}

\* What the caller of SkillsMatcher.match observes
SkillsOutcome(resume_skills, required, nice, rEmb, jEmb, out) ==
    [op |-> "skills", resume_skills |-> resume_skills, required |-> required,
     nice |-> nice, rEmb |-> rEmb, jEmb |-> jEmb, result |-> out]

\* engine.skills_matcher.match(resume_skills, required, nice, rEmb, jEmb)
SkillsCall(resume_skills, required, nice, rEmb, jEmb) ==
    /\ engine = "built"
    /\ Idle
    /\ call' = SkillsOutcome(resume_skills, required, nice, rEmb, jEmb,
                             SkillsMatch(resume_skills, required, nice, rEmb, jEmb))
    /\ UNCHANGED <<storeVars, other, engineVars, rankVars>>

\* What the caller of ScoreNormalizer.normalize observes
NormalizeOutcome(scores, out) ==
    [op |-> "normalize", scores |-> scores, out |-> out]

\* ScoreNormalizer().normalize(scores)
NormalizeCall(scores) ==
    /\ Idle
    /\ call' = NormalizeOutcome(scores, Normalize(scores))
    /\ UNCHANGED <<storeVars, other, engineVars, rankVars>>

\* SkillsMatcher.match on any of the bounded inputs; the inputs are
\* enumerated only where a call can start
SkillsCallAny ==
    /\ Idle
    /\ \E rs \in DistinctSeqs(CandidateSkillNames, MaxSkills),
          req \in DistinctSeqs(JobSkillNames, MaxSkills),
          nice \in DistinctSeqs(NiceSkillNames, MaxSkills),
          rEmb \in CandidateEmbeddings, jEmb \in JobEmbeddings :
          SkillsCall(rs, req, nice, rEmb, jEmb)

\* ScoreNormalizer.normalize on any of the bounded score lists
NormalizeCallAny ==
    /\ Idle
    /\ \E s \in ScoreLists : NormalizeCall(s)

\* PercentileCalculator().calculate(scores)
CalculateCall(scores) ==
    /\ Idle
    /\ call' = [op |-> "calculate", scores |-> scores, out |-> Calculate(scores)]
    /\ UNCHANGED <<storeVars, other, engineVars, rankVars>>

\* Years of experience in units of 0.1 year, None for a missing value
CandidateYears == {NoneVal, Num(-20), Num(0), Num(30), Num(50), Num(70), Num(500)}

RequiredYears == {NoneVal, Num(-10), Num(0), Num(50), Num(500)}

\* penalty_per_year 0.0, 0.15 (the default) and 0.30, per 0.1 year
Penalties == {0, PENALTY_PER_TENTH_YEAR, 2 * PENALTY_PER_TENTH_YEAR}

\* ExperienceScorer(penalty_per_year=p).score(c, r)
ExperienceCall(c, r, p) ==
    /\ Idle
    /\ call' = [op |-> "experience", cand |-> c, req |-> r, penalty |-> p,
                out |-> ExperienceScoreWithPenalty(c, r, p)]
    /\ UNCHANGED <<storeVars, other, engineVars, rankVars>>

\* One education text per level 5..0, the empty text and None
EducationTexts ==
    {Text(PhD_ML), Text(Master_CS), Text(Bachelor_CS), Text(Associate_IT),
     Text(High_School), Text(Bootcamp), Text(<<>>), NoneText}

\* EducationScorer().score(c, r), with the two levels it detected
EducationCall(c, r) ==
    /\ Idle
    /\ call' = [op |-> "education", cand |-> c, req |-> r,
                candidate_level |-> DetectLevel(c).value,
                required_level |-> DetectLevel(r).value,
                out |-> EducationScore(c, r)]
    /\ UNCHANGED <<storeVars, other, engineVars, rankVars>>

\* Thresholds a matcher may carry in MATCH_THRESHOLD
Thresholds == {MATCH_THRESHOLD, 8000, SCALE}

\* One pass of the loop of _match_required_skills, for the skill job_skill,
\* by a matcher whose MATCH_THRESHOLD is threshold
RequiredSkillCall(job_skill, resume_skills, rEmb, jEmb, threshold) ==
    /\ call' = [op |-> "required_skill", job_skill |-> job_skill,
                resume_skills |-> resume_skills, rEmb |-> rEmb, jEmb |-> jEmb,
                threshold |-> threshold,
                best |-> FindBestMatch(job_skill, resume_skills, rEmb, jEmb),
                matched |-> MeetsThreshold(
                    FindBestMatch(job_skill, resume_skills, rEmb, jEmb).score,
                    threshold)]
    /\ UNCHANGED <<storeVars, other, engineVars, rankVars>>

RequiredSkillCallAny ==
    /\ Idle
    /\ \E job_skill \in JobSkillNames,
          rs \in DistinctSeqs(CandidateSkillNames, MaxSkills),
          rEmb \in CandidateEmbeddings, jEmb \in JobEmbeddings,
          threshold \in Thresholds :
          RequiredSkillCall(job_skill, rs, rEmb, jEmb, threshold)
(***************************************************************************)
(* C13, C14: calls on a shared engine                                      *)
(***************************************************************************)
\* rank() run alone on (fixed, members): every value it computes on the way
RankAlone(d, dir, fixed, members) ==
    LET mr     == [k \in 1..Len(members) |->
                      MemberMatch(d, dir, fixed, members[k]).result]
        raw    == [k \in 1..Len(members) |-> mr[k].overall_score]
        normed == Normalize(raw)
        percs  == Calculate(raw)
        objs   == BuildResults(dir, members, mr, percs, normed)
        order  == SortResults(objs)
        final  == AssignRanks(objs, order)
    IN  [raw_scores        |-> raw,
         normalized_scores |-> normed,
         percentiles       |-> percs,
         results           |-> objs,
         ranked            |-> order,
         returned          |-> [k \in 1..Len(order) |-> final[order[k]]]]

\* The first thread's rank() frame as a record
ThisFrame ==
    [pc |-> rankPc, dir |-> rankDir, fixed |-> rankFixed, pool |-> pool,
     match_results |-> match_results, raw_scores |-> raw_scores,
     normalized_scores |-> normalized_scores, percentiles |-> percentiles,
     results |-> results, ranked |-> ranked, call |-> call]

\* The list a finished frame returned
FrameReturned(f) == [k \in 1..Len(f.ranked) |-> f.results[f.ranked[k]]]

\* Every local of the frame f holds what the call alone (a) computes at f.pc
FrameAgrees(f, a) ==
    /\ f.pc = "score" =>
          f.raw_scores = SubSeq(a.raw_scores, 1, Len(f.raw_scores))
    /\ f.pc \in {"percentile", "assemble", "sort", "assign", "done"} =>
          /\ f.raw_scores = a.raw_scores
          /\ f.normalized_scores = a.normalized_scores
    /\ f.pc \in {"assemble", "sort", "assign", "done"} =>
          f.percentiles = a.percentiles
    /\ f.pc \in {"sort", "assign"} => f.results = a.results
    /\ f.pc \in {"assign", "done"} => f.ranked = a.ranked
    /\ f.pc = "done" => FrameReturned(f) = a.returned

\* A finished match() of the frame returned what match() alone returns
MatchAgrees(c) ==
    c.op = "match" => c = MatchOutcome(c.resume, c.job,
                                       Match(SelfWeights, c.resume, c.job))

\* C13: under every interleaving of two threads' rank() and match() calls on
\* one engine, each call's raw scores, normalized scores, percentiles, order
\* and returned list (ranks included) are those the same call computes when
\* it runs alone, and each match() returns what it returns alone.
C13_ConcurrentCallsIndependent ==
    /\ FrameAgrees(ThisFrame,
                   RankAlone(SelfWeights, rankDir, rankFixed, pool))
    /\ FrameAgrees(other,
                   RankAlone(SelfWeights, other.dir, other.fixed, other.pool))
    /\ MatchAgrees(call)
    /\ MatchAgrees(other.call)

\* One thread has returned a two-member ranking while the other thread is in
\* the middle of ranking a different pool in the other direction.
C13_Witness ==
    /\ rankPc = "done"
    /\ other.pc = "assemble"
    /\ Len(pool) = 2
    /\ Len(other.pool) = 2
    /\ rankDir # other.dir
    /\ Returned[1].rank = 1
    /\ Returned[2].rank = 2

SkillsCalled == call.op = "skills"

\* ... and returned a result dictionary
SkillsReturned == SkillsCalled /\ call.result.exc = "none"

\* C15: a job with no required skills gets score 1.0 with matched and
\* missing empty whatever the candidate's skills and the embeddings are;
\* otherwise a candidate with no skills gets score 0.0 with matched empty
\* and missing equal to the required list; neither case raises.
C15_EdgeCasesFirst ==
    SkillsCalled =>
        /\ Len(call.required) = 0 =>
              /\ call.result.exc = "none"
              /\ call.result.skills_score = SCALE
              /\ call.result.matched_skills = <<>>
              /\ call.result.missing_skills = <<>>
        /\ (Len(call.required) # 0 /\ Len(call.resume_skills) = 0) =>
              /\ call.result.exc = "none"
              /\ call.result.skills_score = 0
              /\ call.result.matched_skills = <<>>
              /\ call.result.missing_skills = call.required

\* A job without required skills was matched against a candidate without
\* skills whose embedding mapping is None, and the score is 1.0.
C15_Witness ==
    /\ SkillsCalled
    /\ Len(call.required) = 0
    /\ Len(call.resume_skills) = 0
    /\ call.rEmb = NoneDict
    /\ call.result.skills_score = SCALE

\* The part of a result the nice-to-have list must not influence
RequiredPart(res) == <<res.skills_score, res.matched_skills, res.missing_skills>>

\* The same call made for a job that lists no nice-to-have skill
SameCallWithoutNice ==
    SkillsMatch(call.resume_skills, call.required, <<>>, call.rEmb, call.jEmb)

PairSimilarity(resume_skill, job_skill, rEmb, jEmb) ==
    IF Lower(resume_skill) = Lower(job_skill) THEN SCALE
    ELSE IF job_skill \in DOMAIN jEmb.d /\ resume_skill \in DOMAIN rEmb.d
    THEN SkillCosine(rEmb.d[resume_skill], jEmb.d[job_skill]).value
    ELSE PartialStringScore(resume_skill, job_skill)

\* The greatest similarity over the candidate's skills, 0.0 at least
BestSimilarity(job_skill, resume_skills, rEmb, jEmb) ==
    LET found == {0} \cup {PairSimilarity(resume_skills[i], job_skill, rEmb, jEmb) :
                              i \in 1..Len(resume_skills)}
    IN  CHOOSE x \in found : \A y \in found : y <= x

\* The required skills of the finished call
RequiredSet == {call.required[i] : i \in 1..Len(call.required)}

\* Every required skill has its entry in the similarities mapping
SimilaritiesComplete ==
    /\ DOMAIN call.result.skill_similarities = RequiredSet
    /\ \A s \in RequiredSet :
          /\ call.result.skill_similarities[s] \in 0..SCALE
          /\ call.result.skill_similarities[s] =
                BestSimilarity(s, call.resume_skills, call.rEmb, call.jEmb)

\* C17 as stated: after every returning call, for every candidate skill list
\* and every job, each required skill has an entry in similarities, keyed by
\* the job-side name, holding its best similarity in [0,1].
C17_SimilaritiesForEveryCall == SkillsReturned => SimilaritiesComplete

\* C17: after a returning call in which the candidate has at least one
\* skill, each required skill has an entry in similarities, keyed by the
\* job-side name, holding its best similarity in [0,1], matched or missing;
\* when the candidate has no skills the mapping is empty.
C17_SimilaritiesWhenMatching ==
    SkillsReturned =>
        IF Len(call.resume_skills) > 0
        THEN SimilaritiesComplete
        ELSE DOMAIN call.result.skill_similarities = {}

\* The candidate's "SQL" matched the required "sql": the entry is keyed
\* "sql" and holds 1.0, and a required skill that ended up missing has its
\* entry below the threshold.
C17_Witness ==
    /\ SkillsReturned
    /\ sql \in DOMAIN call.result.skill_similarities
    /\ SQL_ \notin DOMAIN call.result.skill_similarities
    /\ call.result.skill_similarities[sql] = SCALE
    /\ \E i \in 1..Len(call.result.missing_skills) :
          call.result.skill_similarities[call.result.missing_skills[i]]
             < MATCH_THRESHOLD

\* The nice-to-have skills whose best similarity against the candidate's
\* skills reaches the threshold, in nice-to-have order
ExpectedBonus ==
    LET Reached(s) == BestSimilarity(s, call.resume_skills, call.rEmb, call.jEmb)
                         >= MATCH_THRESHOLD
    IN  SelectSeq(call.nice, Reached)

\* C18 as stated: after every returning call bonus holds exactly the
\* nice-to-have skills whose best similarity reaches the threshold, in
\* nice-to-have order, also when the required list is empty.
C18_BonusForEveryRequiredList == SkillsReturned => call.result.bonus_skills = ExpectedBonus

\* C18: after a returning call for a job with at least one required skill,
\* bonus holds exactly the nice-to-have skills whose best similarity against
\* the candidate's skills reaches the threshold, in nice-to-have order,
\* whatever the required list contains; for a job without required skills
\* bonus is empty.
C18_BonusWhenRequiredNonEmpty ==
    SkillsReturned =>
        IF Len(call.required) > 0
        THEN call.result.bonus_skills = ExpectedBonus
        ELSE call.result.bonus_skills = <<>>

\* Of two nice-to-have skills only the second reached the threshold, and it
\* is a required skill of the job as well.
C18_Witness ==
    /\ SkillsReturned
    /\ Len(call.nice) = 2
    /\ call.result.bonus_skills = <<call.nice[2]>>
    /\ call.nice[2] \in RequiredSet

\* The names the job side of the finished call asks about
JobSideSet == RequiredSet \cup {call.nice[i] : i \in 1..Len(call.nice)}

\* The candidate's skills of the finished call
CandidateSet == {call.resume_skills[i] : i \in 1..Len(call.resume_skills)}

\* An embedding mapping is None, or a skill of the call has no embedding
NullEmbedding ==
    \/ call.rEmb.t = "none"
    \/ call.jEmb.t = "none"
    \/ \E s \in CandidateSet : s \notin DOMAIN call.rEmb.d
    \/ \E s \in JobSideSet : s \notin DOMAIN call.jEmb.d

\* A candidate skill and a job skill of the call have embeddings of
\* different dimensions
DimensionMismatch ==
    /\ call.rEmb.t = "dict"
    /\ call.jEmb.t = "dict"
    /\ \E r \in CandidateSet \cap DOMAIN call.rEmb.d,
          j \in JobSideSet \cap DOMAIN call.jEmb.d :
          Len(call.rEmb.d[r]) # Len(call.jEmb.d[j])

\* C19: a call that is passed a null (absent) skill embedding, or skill
\* embeddings of different dimensions, raises an error and returns no
\* similarity computed from a default.
C19_InvalidEmbeddingsRaise ==
    (/\ SkillsCalled
     /\ Len(call.resume_skills) > 0
     /\ JobSideSet # {}
     /\ (NullEmbedding \/ DimensionMismatch)) => call.result.exc # "none"

(***************************************************************************)
(* C20: ScoreNormalizer.normalize                                          *)
(***************************************************************************)
\* A call of ScoreNormalizer.normalize has finished
NormalizeCalled == call.op = "normalize"

\* The least and the greatest score of a non-empty list
LeastScore(s) == CHOOSE m \in Range(s) : \A y \in Range(s) : m <= y

GreatestScore(s) == CHOOSE m \in Range(s) : \A y \in Range(s) : y <= m

\* The reference: [] gives [], one element [1.0], all equal 1.0 everywhere,
\* otherwise (x - min) / (max - min) rounded to 4 decimals
NormalizeReference(s, lo, hi) ==
    [i \in 1..Len(s) |->
        IF Len(s) = 1 \/ lo = hi THEN SCALE
        ELSE RoundDiv((s[i] - lo) * SCALE, hi - lo)]

\* The output is the reference's, has the input's length, lies in [0,1], is
\* monotone in the input, and sends every maximum to 1.0
NormalizeAgrees(s, out, lo, hi) ==
    /\ out = NormalizeReference(s, lo, hi)
    /\ Len(out) = Len(s)
    /\ \A i \in 1..Len(s) : out[i] \in 0..SCALE
    /\ \A i, j \in 1..Len(s) : s[i] <= s[j] => out[i] <= out[j]
    /\ \A i \in 1..Len(s) : s[i] = hi => out[i] = SCALE

\* Every minimum of the input is sent to 0.0
MinimaToZero(s, out, lo) == \A i \in 1..Len(s) : s[i] = lo => out[i] = 0

\* C20 as stated: for every input list the output equals the reference, has
\* the input's length, is in [0,1] and monotone, every maximum maps to 1.0
\* and every minimum to 0.0.
C20_NormalizeEveryMinimumZero ==
    NormalizeCalled =>
        IF Len(call.scores) = 0 THEN call.out = <<>>
        ELSE /\ NormalizeAgrees(call.scores, call.out, LeastScore(call.scores),
                                GreatestScore(call.scores))
             /\ MinimaToZero(call.scores, call.out, LeastScore(call.scores))

\* C20: for every input list the output equals the reference ([] for [],
\* [1.0] for one element, 1.0 everywhere when all are equal, otherwise
\* (x - min) / (max - min) rounded to 4 decimals), has the input's length,
\* is in [0,1] and monotone, and every maximum maps to 1.0; every minimum
\* maps to 0.0 when the list holds two different values.
C20_NormalizeEqualsReference ==
    NormalizeCalled =>
        IF Len(call.scores) = 0 THEN call.out = <<>>
        ELSE /\ NormalizeAgrees(call.scores, call.out, LeastScore(call.scores),
                                GreatestScore(call.scores))
             /\ LeastScore(call.scores) # GreatestScore(call.scores) =>
                   MinimaToZero(call.scores, call.out, LeastScore(call.scores))

\* Three different scores were normalized: the least to 0.0, the greatest
\* to 1.0 and the middle one to a rounded quotient.
C20_Witness ==
    /\ NormalizeCalled
    /\ call.scores = <<0, 3333, 7400>>
    /\ call.out = <<0, 4504, SCALE>>

(***************************************************************************)
(* C21: PercentileCalculator.calculate                                     *)
(***************************************************************************)
\* A call of PercentileCalculator.calculate has finished
CalculateCalled == call.op = "calculate"

\* Output i is the share of the pool strictly below input i
PercentileOfInput(s, out) ==
    \A i \in 1..Len(s) :
        out[i] = RoundDiv(Cardinality({k \in 1..Len(s) : s[k] < s[i]}) * SCALE,
                          Len(s))

\* C21: calculate returns [] for [] and [1.0] for one score; for two or
\* more scores output i is the percentile of input i, equal scores receive
\* equal percentiles, a strictly higher score never receives a lower
\* percentile, and every minimum score receives 0.0.
C21_PercentileOrderPreservingTieAware ==
    CalculateCalled =>
        /\ Len(call.out) = Len(call.scores)
        /\ Len(call.scores) = 1 => call.out = <<SCALE>>
        /\ Len(call.scores) >= 2 =>
              /\ PercentileOfInput(call.scores, call.out)
              /\ \A i, j \in 1..Len(call.scores) :
                    /\ call.scores[i] = call.scores[j] => call.out[i] = call.out[j]
                    /\ call.scores[i] > call.scores[j] => call.out[i] >= call.out[j]
              /\ \A i \in 1..Len(call.scores) :
                    call.scores[i] = LeastScore(call.scores) => call.out[i] = 0

\* An unsorted pool with a tie at the top: the two equal scores share the
\* percentile 0.3333 and the minimum in the middle has 0.0.
C21_Witness ==
    /\ CalculateCalled
    /\ call.scores = <<7400, 3333, 7400>>
    /\ call.out = <<3333, 0, 3333>>

(***************************************************************************)
(* C22: shortlist_resumes                                                  *)
(***************************************************************************)
\* A shortlist call has returned
Shortlisted == rankPc = "shortlisted"

\* The list the shortlist call returned
ShortlistReturned == [k \in 1..Len(shortlist) |-> results[shortlist[k]]]

\* The ranked results that reach min_score
Qualifying ==
    {k \in 1..Len(ranked) : RawScoreOf(Returned[k]) >= shortArgs[2]}

ExperienceCalled == call.op = "experience"

\* Missing or negative years count as 0
YearsOrZero(x) == IF x.t = "none" \/ x.v < 0 THEN 0 ELSE x.v

\* 1.0 without requirement or when it is met, else max(0, 1 - gap * p)
ExperienceReference(c, r, p) ==
    IF r = 0 \/ c >= r THEN SCALE
    ELSE IF SCALE - (r - c) * p < 0 THEN 0 ELSE SCALE - (r - c) * p

\* score(3, 5) = 0.70 and score(0, 5) = 0.25 with the default penalty
DocumentedExperienceValues ==
    /\ ExperienceScore(Num(30), Num(50)).value = 7000
    /\ ExperienceScore(Num(0), Num(50)).value = 2500
    /\ ExperienceScore(Num(0), Num(500)).value = 0

EducationCalled == call.op = "education"

\* C24: on the detected levels, required level 0 gives 1.0 even when the
\* candidate level is 0 too; otherwise candidate level 0 gives 0.30;
\* otherwise candidate level >= required level gives 1.0; otherwise the
\* score is 1.0 - 0.20 * (required - candidate), floored at 0.0.
C24_EducationRulesInOrder ==
    EducationCalled =>
        /\ call.out.exc = "none"
        /\ call.candidate_level \in 0..5
        /\ call.required_level \in 0..5
        /\ call.required_level = 0 => call.out.value = SCALE
        /\ (call.required_level # 0 /\ call.candidate_level = 0) =>
              call.out.value = UNKNOWN_SCORE
        /\ (call.required_level # 0 /\ call.candidate_level # 0
              /\ call.candidate_level >= call.required_level) =>
              call.out.value = SCALE
        /\ (call.candidate_level # 0
              /\ call.candidate_level < call.required_level) =>
              /\ call.out.value >= 0
              /\ call.out.value + PENALTY_PER_LEVEL
                    * (call.required_level - call.candidate_level) = SCALE

\* An unrecognized education ("Bootcamp") against an empty requirement:
\* both levels are 0 and the score is 1.0, not 0.30.
C24_Witness ==
    /\ EducationCalled
    /\ call.cand = Text(Bootcamp)
    /\ call.candidate_level = 0
    /\ call.required_level = 0
    /\ call.out.value = SCALE

\* C29: over the level pairs candidate 1..5, required 1..5 the score takes
\* only the values 1.0, 0.8, 0.6, 0.4 and 0.2; it is below the 0.30 of an
\* unknown education exactly for candidate level 1 against required level
\* 5; the 0.0 floor is not reached, and no education score is below 0.2.
C29_KnownLowBelowUnknown ==
    EducationCalled =>
        /\ call.out.value >= 2000
        /\ (call.candidate_level \in 1..5 /\ call.required_level \in 1..5) =>
              /\ call.out.value \in {SCALE, 8000, 6000, 4000, 2000}
              /\ call.out.value < UNKNOWN_SCORE <=>
                    (call.candidate_level = 1 /\ call.required_level = 5)

\* "High School" against a PhD requirement scores 0.2, below the 0.30 an
\* unrecognized education gets against the same requirement.
C29_Witness ==
    /\ EducationCalled
    /\ call.candidate_level = 1
    /\ call.required_level = 5
    /\ call.out.value = 2000
    /\ call.out.value < EducationScore(Text(Bootcamp), call.req).value

(***************************************************************************)
(* JobStore                                                                *)
(***************************************************************************)
MaxClock == 2

\* now[:10]: the date is the timestamp's prefix; the clock counts half days
TicksPerDay == 2

Day(now) == now \div TicksPerDay

APPLICATION_STATUSES ==
    {"NOT_APPLIED", "APPLIED", "INTERVIEWING", "OFFER_RECEIVED", "REJECTED",
     "DECLINED"}

NoDate == -1

\* The postings the scraper converted: job_id, raw_title and the JobProfile
ScrapedJobs ==
    {[job_id |-> "data", raw_title |-> "Data Engineer", profile |-> "data"],
     [job_id |-> "intern", raw_title |-> "Intern", profile |-> "intern"]}

\* The RankingResult handed to save_job: overall_score of its MatchResult
SavedScores == {5000}

StatusInputs == {"APPLIED", "REJECTED", "HIRED"}

NoteInputs == {<<" ", "o", "k", " ">>}

RECURSIVE LStrip(_)
LStrip(s) == IF s # <<>> /\ Head(s) = " " THEN LStrip(Tail(s)) ELSE s

RECURSIVE RStrip(_)
RStrip(s) ==
    IF s # <<>> /\ s[Len(s)] = " " THEN RStrip(SubSeq(s, 1, Len(s) - 1)) ELSE s

\* str.strip()
Strip(s) == RStrip(LStrip(s))

\* The row save_job's INSERT supplies; the columns it omits take their defaults
NewRow(scraped_job, overall_score, now) ==
    [title        |-> scraped_job.raw_title,
     match_score  |-> overall_score,
     status       |-> "NOT_APPLIED",
     applied_date |-> NoDate,
     last_updated |-> now,
     notes        |-> <<>>,
     found_date   |-> Day(now)]

\* Variant of InsertOrIgnore: INSERT OR REPLACE
InsertOrReplace(rows, job_id, row) ==
    [id \in DOMAIN rows \cup {job_id} |-> IF id = job_id THEN row ELSE rows[id]]

\* INSERT OR IGNORE INTO jobs: a row whose job_id is stored is skipped
InsertOrIgnore(rows, job_id, row) ==
    IF job_id \in DOMAIN rows THEN rows
    ELSE [id \in DOMAIN rows \cup {job_id} |->
             IF id = job_id THEN row ELSE rows[id]]

\* save_job on the table rows at time now: the table afterwards
SaveJobRows(rows, now, scraped_job, overall_score) ==
    InsertOrIgnore(rows, scraped_job.job_id,
                   NewRow(scraped_job, overall_score, now))

\* cur.rowcount > 0 of the INSERT OR IGNORE that took the table from before
\* to after: a row was inserted
Inserted(before, after) == DOMAIN after # DOMAIN before

\* JobStore.save_job
SaveJob(scraped_job, overall_score) ==
    /\ store' = SaveJobRows(store, clock, scraped_job, overall_score)
    /\ call' = [op |-> "save_job", job_id |-> scraped_job.job_id,
                before |-> store, exc |-> "none",
                out |-> Inserted(store, SaveJobRows(store, clock, scraped_job,
                                                    overall_score))]
    /\ UNCHANGED <<clock, other, engineVars, rankVars>>

\* UPDATE jobs SET status, last_updated [, applied_date] WHERE job_id = ?
StatusUpdated(row, status, now) ==
    [row EXCEPT !.status = status, !.last_updated = now,
                !.applied_date = IF status = "APPLIED" THEN Day(now) ELSE @]

\* JobStore.update_status
UpdateStatus(job_id, status) ==
    /\ IF status \notin APPLICATION_STATUSES
       THEN /\ call' = [op |-> "update_status", job_id |-> job_id,
                        before |-> store, exc |-> "ValueError", out |-> FALSE]
            /\ UNCHANGED store
       ELSE /\ call' = [op |-> "update_status", job_id |-> job_id,
                        before |-> store, exc |-> "none",
                        out |-> job_id \in DOMAIN store]
            /\ store' = [id \in DOMAIN store |->
                            IF id = job_id
                            THEN StatusUpdated(store[id], status, clock)
                            ELSE store[id]]
    /\ UNCHANGED <<clock, other, engineVars, rankVars>>

\* JobStore.add_note
AddNote(job_id, note) ==
    /\ store' = [id \in DOMAIN store |->
                    IF id = job_id
                    THEN [store[id] EXCEPT !.notes = Strip(note),
                                           !.last_updated = clock]
                    ELSE store[id]]
    /\ call' = [op |-> "add_note", job_id |-> job_id, before |-> store,
                exc |-> "none", out |-> job_id \in DOMAIN store]
    /\ UNCHANGED <<clock, other, engineVars, rankVars>>

\* JobStore.delete_job
DeleteJob(job_id) ==
    /\ store' = [id \in DOMAIN store \ {job_id} |-> store[id]]
    /\ call' = [op |-> "delete_job", job_id |-> job_id, before |-> store,
                exc |-> "none", out |-> job_id \in DOMAIN store]
    /\ UNCHANGED <<clock, other, engineVars, rankVars>>

\* _save_results: scraped_map.get(result.job_id)
ScrapedMapGet(scraped, job_id) ==
    {s \in Range(scraped) : s.job_id = job_id}

\* _save_results: the loop over qualified from position k on, starting from
\* the table rows and the counts jobs_new and jobs_saved
RECURSIVE SaveResultsLoop(_, _, _, _, _, _, _)
SaveResultsLoop(rows, now, scraped, qualified, k, jobs_new, jobs_saved) ==
    IF k > Len(qualified)
    THEN [rows |-> rows, jobs_new |-> jobs_new, jobs_saved |-> jobs_saved]
    ELSE IF ScrapedMapGet(scraped, qualified[k].job_id) = {}
    THEN SaveResultsLoop(rows, now, scraped, qualified, k + 1, jobs_new,
                         jobs_saved)
    ELSE LET scraped_job == CHOOSE s \in ScrapedMapGet(scraped, qualified[k].job_id) : TRUE
             after == SaveJobRows(rows, now, scraped_job,
                                  qualified[k].overall_score)
         IN  SaveResultsLoop(after, now, scraped, qualified, k + 1,
                             IF Inserted(rows, after) THEN jobs_new + 1
                             ELSE jobs_new,
                             jobs_saved + 1)

\* PipelineRunner._save_results on the table rows
SaveResults(rows, now, scraped, qualified) ==
    SaveResultsLoop(rows, now, scraped, qualified, 1, 0, 0)

\* The lists a run hands to _save_results: postings, and results by job_id
MaxSaved == 2

ScrapedLists == DistinctSeqs(ScrapedJobs, MaxSaved)

QualifiedResults ==
    {[job_id |-> "data", overall_score |-> 7400],
     [job_id |-> "intern", overall_score |-> 5000],
     [job_id |-> "gone", overall_score |-> 5000]}

QualifiedLists == DistinctSeqs(QualifiedResults, MaxSaved)

SaveResultsCall(scraped, qualified) ==
    /\ store' = SaveResults(store, clock, scraped, qualified).rows
    /\ call' = [op |-> "_save_results", scraped |-> scraped,
                qualified |-> qualified, before |-> store, exc |-> "none",
                out |-> SaveResults(store, clock, scraped, qualified)]
    /\ UNCHANGED <<clock, other, engineVars, rankVars>>

\* A posting whose JobProfile is None; scraped postings are [job_id,
\* raw_title, profile], and a profile is named by the job_id of its posting
BrokenPosting ==
    [job_id |-> NoProfile, raw_title |-> "Untitled", profile |-> NoProfile]

\* The lists of postings handed to _match_and_rank
PostingLists == DistinctSeqs(ScrapedJobs \cup {BrokenPosting}, MaxSaved)

PipelineResumeIds == {"alice", "bob"}

\* rank(), steps 5 and 6: the sorted list with its ranks assigned
RankedList(final, order) ==
    [exc |-> "none", returned |-> [k \in 1..Len(order) |-> final[order[k]]]]

RankSorted(objs, order) == RankedList(AssignRanks(objs, order), order)

RankAssembled(objs) == RankSorted(objs, SortResults(objs))

\* rank(), steps 2 to 4, on the raw scores of the matches
RankScored(dir, members, matches, raw) ==
    RankAssembled(BuildResults(dir, members, matches, Calculate(raw),
                               Normalize(raw)))

\* rank(), step 1, given what match() did for each member: the exception
\* of the first match that raised leaves rank()
RankMatched(dir, members, outcomes) ==
    IF \E k \in 1..Len(members) : outcomes[k].exc # "none"
    THEN [exc |-> outcomes[CHOOSE k \in 1..Len(members) :
                             /\ outcomes[k].exc # "none"
                             /\ \A m \in 1..(k - 1) : outcomes[m].exc = "none"].exc,
          returned |-> <<>>]
    ELSE RankScored(dir, members,
                    [k \in 1..Len(members) |-> outcomes[k].result],
                    [k \in 1..Len(members) |-> outcomes[k].result.overall_score])

\* RankingEngine.rank_jobs_for_resume on a non-empty list of job dicts,
\* each given by the job_id that names its profile
RankJobsForResume(d, resume, profiles) ==
    RankMatched("jobs", profiles,
                [k \in 1..Len(profiles) |-> Match(d, resume, profiles[k])])

\* _match_and_rank: except Exception -> []
RankedOrNothing(outcome) ==
    IF outcome.exc # "none" THEN <<>> ELSE outcome.returned

\* PipelineRunner._match_and_rank: the list it returns
MatchAndRank(d, resume, scraped) ==
    IF Len(scraped) = 0 THEN <<>>
    ELSE RankedOrNothing(
             RankJobsForResume(d, resume,
                               [k \in 1..Len(scraped) |-> scraped[k].profile]))

MatchAndRankCall(resume, scraped) ==
    /\ call' = [op |-> "_match_and_rank", resume |-> resume,
                scraped |-> scraped, exc |-> "none",
                out |-> MatchAndRank(SelfWeights, resume, scraped)]
    /\ UNCHANGED <<storeVars, other, engineVars, rankVars>>

MatchAndRankCallAny ==
    /\ Idle
    /\ \E r \in PipelineResumeIds, s \in PostingLists : MatchAndRankCall(r, s)


ComponentNext ==
    \/ SkillsCallAny
    \/ RequiredSkillCallAny
    \/ MatchAndRankCallAny
    \/ NormalizeCallAny
    \/ \E s \in ScoreLists : CalculateCall(s)
    \/ \E c \in CandidateYears, r \in RequiredYears, p \in Penalties :
          ExperienceCall(c, r, p)
    \/ \E c \in EducationTexts, r \in EducationTexts : EducationCall(c, r)
    \/ Discard

ComponentSpec == ConcInit /\ [][ComponentNext]_vars

\* Time passes between two calls
Tick ==
    /\ Idle
    /\ clock < MaxClock
    /\ clock' = clock + 1
    /\ UNCHANGED <<store, other, engineVars, call, rankVars>>

StoreJobIds == {s.job_id : s \in ScrapedJobs}

StoreCallAny ==
    /\ Idle
    /\ \/ \E s \in ScrapedJobs, v \in SavedScores : SaveJob(s, v)
       \/ \E id \in StoreJobIds, status \in StatusInputs : UpdateStatus(id, status)
       \/ \E id \in StoreJobIds, note \in NoteInputs : AddNote(id, note)
       \/ \E id \in StoreJobIds : DeleteJob(id)
       \/ \E s \in ScrapedLists, q \in QualifiedLists : SaveResultsCall(s, q)

StoreNext ==
    \/ StoreCallAny
    \/ Tick
    \/ Discard

\* A JobStore on a new database, used by one caller
StoreSpec == ConcInit /\ [][StoreNext]_vars

(***************************************************************************)
(* Properties of the JobStore                                              *)
(***************************************************************************)
SaveJobCalled == call.op = "save_job"

SaveResultsCalled == call.op = "_save_results"

\* Every row of the table before the call is in the table, as it was
RowsKept == \A id \in DOMAIN call.before : id \in DOMAIN store /\ store[id] = call.before[id]

\* C25: save_job for a job_id that is stored returns False and leaves the
\* whole table as it was (every column of every row, and the number of
\* rows); for a job_id that is not stored it returns True and adds exactly
\* that row, with status NOT_APPLIED.  Whatever save_job, update_status,
\* add_note and delete_job calls came before, _save_results keeps every
\* stored row as it was, and over results that are all stored it reports 0
\* new jobs.
C25_SaveJobNeverOverwrites ==
    /\ SaveJobCalled =>
          IF call.job_id \in DOMAIN call.before
          THEN call.out = FALSE /\ store = call.before
          ELSE /\ call.out = TRUE
               /\ DOMAIN store = DOMAIN call.before \cup {call.job_id}
               /\ store[call.job_id].status = "NOT_APPLIED"
               /\ RowsKept
    /\ SaveResultsCalled =>
          /\ RowsKept
          /\ call.out.jobs_new = Cardinality(DOMAIN store \ DOMAIN call.before)
          /\ (\A k \in DOMAIN call.qualified :
                 call.qualified[k].job_id \in DOMAIN call.before)
             => call.out.jobs_new = 0

\* save_job with another score on a job that was applied for and annotated
C25_Witness ==
    /\ SaveJobCalled
    /\ call.out = FALSE
    /\ call.job_id \in DOMAIN store
    /\ store[call.job_id].status = "APPLIED"
    /\ store[call.job_id].applied_date # NoDate
    /\ store[call.job_id].notes = <<"o", "k">>
    /\ store[call.job_id].match_score = 7400
    /\ store[call.job_id].last_updated < clock
    /\ Cardinality(DOMAIN store) = 2

(***************************************************************************)
(* Properties of the best-match search                                     *)
(***************************************************************************)
RequiredSkillCalled == call.op = "required_skill"

RequiredSkillReturned == RequiredSkillCalled /\ call.best.exc = "none"

\* Some candidate skill equals the job skill but for case
ExactExists ==
    \E i \in 1..Len(call.resume_skills) :
        Lower(call.resume_skills[i]) = Lower(call.job_skill)

\* The similarities of the job skill to each candidate skill
CandidateSimilarities ==
    {PairSimilarity(call.resume_skills[i], call.job_skill, call.rEmb, call.jEmb) :
        i \in 1..Len(call.resume_skills)}

GreatestOf(S) == CHOOSE x \in S : \A y \in S : y <= x

\* The search for a skill that was listed as required or as nice-to-have
BestOf(job_skill) ==
    BestSimilarity(job_skill, call.resume_skills, call.rEmb, call.jEmb)

\* C26 as stated: with an exact match among the candidates the best
\* similarity is 1.0 whatever the embeddings are and wherever the match
\* sits; otherwise it is the greatest similarity of a candidate skill; the
\* skill is matched exactly when the best similarity is >= the threshold.
C26_BestIsGreatestSimilarity ==
    (RequiredSkillCalled /\ Len(call.resume_skills) > 0) =>
        /\ call.best.exc = "none"
        /\ call.best.score = IF ExactExists THEN SCALE
                             ELSE GreatestOf(CandidateSimilarities)
        /\ call.matched <=> call.best.score >= call.threshold

\* C26, amended: when the search returns, the best similarity is 1.0 with
\* an exact match among the candidates, and otherwise the greater of 0.0
\* and the greatest similarity of a candidate skill; the skill is matched
\* exactly when the best similarity is >= the threshold.  A whole match
\* lists as matched the required skills, and as bonus the nice-to-have
\* skills, whose best similarity is >= MATCH_THRESHOLD.
C26_BestIsGreatestOrZero ==
    /\ RequiredSkillReturned =>
          /\ call.best.score = IF ExactExists THEN SCALE
                               ELSE GreatestOf({0} \cup CandidateSimilarities)
          /\ call.matched <=> call.best.score >= call.threshold
    /\ (SkillsReturned /\ Len(call.resume_skills) > 0 /\ Len(call.required) > 0) =>
          /\ call.result.matched_skills =
                SelectSeq(call.required, LAMBDA s : BestOf(s) >= MATCH_THRESHOLD)
          /\ call.result.missing_skills =
                SelectSeq(call.required, LAMBDA s : BestOf(s) < MATCH_THRESHOLD)
          /\ call.result.bonus_skills =
                SelectSeq(call.nice, LAMBDA s : BestOf(s) >= MATCH_THRESHOLD)

\* A cosine similarity equal to the threshold, found although the exact
\* match of another skill and a skill without embedding are in the list
C26_Witness ==
    /\ RequiredSkillReturned
    /\ call.job_skill = tensorflow
    /\ call.resume_skills = <<apache_spark, pytorch>>
    /\ call.best.score = 8000
    /\ call.best.score = call.threshold
    /\ call.matched

(***************************************************************************)
(* Properties of the phases of one ranking call                            *)
(***************************************************************************)
ScoredPhases == {"percentile", "assemble", "sort", "assign", "filter", "done", "shortlisted"}

\* C27: a ranking call goes through Score, Normalize, Percentile, Assemble,
\* Sort and Assign in this order.  While it scores, the matcher has been
\* invoked once for each member scored so far and nothing else has been
\* computed; normalization and percentiles exist only once every member has
\* been matched, with one matcher invocation per member, and are those of
\* the complete raw-score list in pool order; every RankingResult has rank
\* 0 from assembly until the sort has finished; a call in which the matcher
\* raised holds no result at all.
C27_PhasesInFixedOrder ==
    /\ rankPc = "score" =>
          /\ matcher_calls = Len(raw_scores)
          /\ Len(match_results) = Len(raw_scores)
          /\ Len(raw_scores) <= Len(pool)
          /\ normalized_scores = <<>> /\ percentiles = <<>>
          /\ results = <<>> /\ ranked = <<>>
    /\ rankPc \in ScoredPhases =>
          /\ matcher_calls = Len(pool)
          /\ Len(raw_scores) = Len(pool)
          /\ \A k \in 1..Len(pool) :
                /\ match_results[k] =
                      MemberMatch(SelfWeights, rankDir, rankFixed, pool[k]).result
                /\ raw_scores[k] = match_results[k].overall_score
          /\ normalized_scores = Normalize(raw_scores)
    /\ rankPc = "percentile" => percentiles = <<>> /\ results = <<>>
    /\ rankPc \in ScoredPhases \ {"percentile"} => percentiles = Calculate(raw_scores)
    /\ rankPc = "assemble" => results = <<>> /\ ranked = <<>>
    /\ rankPc \in {"sort", "assign"} =>
          /\ Len(results) = Len(pool)
          /\ \A k \in 1..Len(results) : results[k].rank = 0
    /\ rankPc = "sort" => ranked = <<>>
    /\ rankPc \in {"assign", "filter", "done", "shortlisted"} =>
          ranked = SortResults(results)
    /\ rankPc \in {"filter", "done", "shortlisted"} =>
          \A k \in 1..Len(ranked) : results[ranked[k]].rank = k
    /\ rankPc = "raised" =>
          /\ matcher_calls >= 1
          /\ match_results = <<>> /\ raw_scores = <<>>
          /\ normalized_scores = <<>> /\ percentiles = <<>>
          /\ results = <<>> /\ ranked = <<>> /\ shortlist = <<>>

\* Three members matched, normalized and assembled, none of them ranked yet
C27_Witness ==
    /\ rankPc = "sort"
    /\ Len(pool) = 3
    /\ matcher_calls = 3
    /\ Len(normalized_scores) = 3
    /\ Len(percentiles) = 3
    /\ \A k \in 1..3 : results[k].rank = 0
    /\ \E k \in 1..2 : raw_scores[k] < raw_scores[k + 1]


(***************************************************************************)
(* Properties of the returned results                                      *)
(***************************************************************************)
\* The returned result res is the one of pool member i: it carries the
\* member's id, the MatchResult of the member's match, and the percentile
\* and normalized score of the member's raw score
CarriesMember(res, i) ==
    /\ res.job_id = (IF rankDir = "jobs" THEN pool[i] ELSE "")
    /\ res.resume_id = (IF rankDir = "resumes" THEN pool[i] ELSE "")
    /\ res.match_result =
          MemberMatch(SelfWeights, rankDir, rankFixed, pool[i]).result
    /\ res.match_result = match_results[i]
    /\ RawScoreOf(res) = raw_scores[i]
    /\ res.percentile = Calculate(raw_scores)[i]
    /\ res.normalized_score = Normalize(raw_scores)[i]

\* The positions of the list ret that hold the result of pool member i
PositionsOf(ret, i) == {k \in 1..Len(ret) : MemberId(ret[k]) = pool[i]}

\* The list ret holds one result per pool member, with the member's data
OnePerMember(ret) ==
    /\ Len(ret) = Len(pool)
    /\ \A i \in 1..Len(pool) :
          /\ Cardinality(PositionsOf(ret, i)) = 1
          /\ \A k \in PositionsOf(ret, i) : CarriesMember(ret[k], i)

\* percentile and normalized_score fall along ret, and ties share them
FallsAlong(ret) ==
    /\ \A k \in 1..(Len(ret) - 1) :
          /\ ret[k].percentile >= ret[k + 1].percentile
          /\ ret[k].normalized_score >= ret[k + 1].normalized_score
    /\ \A a, b \in 1..Len(ret) :
          RawScoreOf(ret[a]) = RawScoreOf(ret[b]) =>
             /\ ret[a].percentile = ret[b].percentile
             /\ ret[a].normalized_score = ret[b].normalized_score

\* C28: a returned ranking holds exactly one result per pool member, and it
\* carries the member's identifier in the field of the ranked kind (the
\* other identifier empty), the member's MatchResult, and the percentile
\* and normalized score of the member's raw score; percentile and
\* normalized_score do not increase along the ranked list, and results with
\* equal raw scores have equal percentile and equal normalized_score.
C28_ResultsKeepTheirMember ==
    RankReturned => OnePerMember(Returned) /\ FallsAlong(Returned)

\* Three jobs ranked in another order than the pool's, two of them tied
C28_Witness ==
    /\ RankReturned
    /\ rankDir = "jobs"
    /\ Len(pool) = 3
    /\ MemberId(Returned[1]) = pool[3]
    /\ Returned[1].resume_id = ""
    /\ \E a, b \in 1..3 : a # b /\ RawScoreOf(Returned[a]) = RawScoreOf(Returned[b])
    /\ Returned[1].percentile > Returned[3].percentile

(***************************************************************************)
(* Properties of the pipeline's matching stage                             *)
(***************************************************************************)
MatchAndRankCalled == call.op = "_match_and_rank"

\* The postings of the call whose match does not raise, in their order
Matchable ==
    SelectSeq(call.scraped,
              LAMBDA s : Match(SelfWeights, call.resume, s.profile).exc = "none")

\* C30: _match_and_rank isolates each match: the postings whose match
\* does not raise are matched, ranked and returned, whatever happens to
\* the match of another posting of the same run.
C30_EachMatchIsolated ==
    MatchAndRankCalled =>
        call.out = MatchAndRank(SelfWeights, call.resume, Matchable)

====
